---- MODULE Spec2Model ----
(***************************************************************************)
(* Model of the Zotero -> vault reconciliation of obsidian-zotero-sync-    *)
(* client.  Two builds of the plugin are in the repository and both are    *)
(* modelled: MyPlugin (src/main.ts) and ZoteroSyncClientPlugin             *)
(* (src/unnamed/part_002).  The variable `version` says which build a      *)
(* behaviour runs; it never changes.                                       *)
(*                                                                         *)
(* One library.  A pass is                                                 *)
(*   sync -> syncWithZotero -> applyUpdates (readLibrary, readStatus,      *)
(*   computeChanges, the four apply loops, writeStatus) -> last_sync.      *)
(* Every file operation of the apply loops is two steps: the call (its     *)
(* synchronous prefix, aquireFile) and the completion of what it awaits.   *)
(*                                                                         *)
(* Spec          passes one after the other, with clearStatus between      *)
(* SpecOverlap   Spec and an applyAllUpdates started while a pass runs     *)
(* SpecAppliers  one call of one applier on any vault                      *)
(* SpecLoad      readLibrary and readStatus on any file content            *)
(* SpecTree      readLibrary on snapshots whose records name parents       *)
(* SpecWriteFailure  passes after a first one, with writeStatus throwing   *)
(* SpecCooldown  passes and calls of sync with a cooldown, as time goes by *)
(* SpecApply     passes and clicks of the Apply button between them        *)
(* SpecUnreadable  passes after a first one, some without a snapshot       *)
(* SpecOverlapAfter  SpecOverlap after a first pass                        *)
(* SpecClearCache  clearCache over several libraries                       *)
(***************************************************************************)
EXTENDS Integers, Sequences, FiniteSets, TLC

\* ---------------------------------------------------------------- bounds
MaxItems == 2
MaxCollections == 1
MaxPaths == 2
MaxBodies == 2
MaxPasses == 2
MaxTreeNodes == 3
MaxTime == 3
MaxDebounce == 2
MaxLibraries == 4

Versions == {"main", "part_002"}
Kinds == {"collections", "items"}
ItemKeys == 1..MaxItems
CollectionKeys == 1..MaxCollections
\* 0 stands for the empty string '' (a falsy generator result)
NoPath == 0
Paths == 1..MaxPaths
Bodies == 1..MaxBodies

VARIABLES
    version,     \* which build runs
    store,       \* the snapshot file <store>/<prefix>.json
    statusFile,  \* the status file <store>/<prefix>.status.json
    vault,       \* the vault's markdown files: path -> content
    pc,          \* position of the pass
    status,      \* applyUpdates: the maps readStatus returned (before computeChanges)
    plan,        \* applyUpdates: renames, updates, deletes, creates
    updatedStatus, \* applyUpdates: updatedStatus
    idx,         \* position in the apply loop named by pc
    running,     \* the file operation that has been called and not yet returned
    failed,      \* some operation of this pass threw (it was caught and logged)
    log,         \* the calls and returns of the appliers in this pass, in order
    vaultAtStart, \* the vault when applyUpdates computed its plan
    handed,      \* the map the last writeStatus call was given
    lastPass,    \* what the last completed pass was like
    passes,      \* the number of passes started
    api_key,     \* settings.api_key
    syncResult,  \* how the last call of sync() ended
    cleared,     \* clearStatus has removed the status file since the last pass
    loaded,      \* what readLibrary / readStatus returned when called alone
    second,      \* the locals of a second applyUpdates in flight
    now,         \* the time, in seconds
    last_sync,   \* this.last_sync
    debounce_seconds, \* the argument of the last call of sync
    libraries    \* clearCache: the libraries of the client and where the loop is

vars == <<version, store, statusFile, vault, pc, status, plan, updatedStatus,
          idx, running, failed, log, vaultAtStart, handed, lastPass, passes,
          api_key, syncResult, cleared, loaded, second,
          now, last_sync, debounce_seconds, libraries>>

\* ------------------------------------------------- JS Map / object helpers
\* A Map (and an object with non-numeric keys) iterates in insertion order:
\* a sequence of <<key, value>> pairs with distinct keys.
EmptyMap == <<>>

MapKeys(m) == {m[n][1] : n \in 1..Len(m)}

MapHas(m, k) == k \in MapKeys(m)

MapGet(m, k) == m[CHOOSE n \in 1..Len(m) : m[n][1] = k][2]

MapSet(m, k, v) ==
    IF MapHas(m, k)
    THEN [n \in 1..Len(m) |-> IF m[n][1] = k THEN <<k, v>> ELSE m[n]]
    ELSE Append(m, <<k, v>>)

MapDelete(m, k) == SelectSeq(m, LAMBDA e : e[1] # k)

\* ----------------------------------------------------------- the snapshot
\* A record of the snapshot, reduced to what the generators make of it:
\* path is the result of the file path template (NoPath when it is falsy),
\* body the result of the note template.
\* throws: one of the two templates throws for the record (then path and
\* body are never made).
\* parent is parentCollection of a collection and parentItem of an item,
\* collections the list of collection keys an item is filed under; the
\* records of a pass are those of a flat library.
NoParent == 0

Records(keys) ==
    {r \in [key : keys, path : {NoPath} \cup Paths, body : Bodies, throws : BOOLEAN,
            parent : {NoParent}, collections : {<<>>}] :
        /\ r.path = NoPath => r.body = 1
        /\ r.throws => r.path = NoPath}

\* The lists of a snapshot file: keys are unique within a kind; the lists
\* the model draws are in ascending key order.
RecordLists(keys, maxLen) ==
    {s \in UNION {[1..n -> Records(keys)] : n \in 0..maxLen} :
        \A a, b \in 1..Len(s) : a < b => s[a].key < s[b].key}

\* The snapshot file as the client writes it: JSON with both lists.
Snapshots ==
    [t : {"json"}, hasCollections : {TRUE}, hasItems : {TRUE},
     collections : RecordLists(CollectionKeys, MaxCollections),
     items : RecordLists(ItemKeys, MaxItems)]

EmptySnapshot ==
    [t |-> "json", hasCollections |-> TRUE, hasItems |-> TRUE,
     collections |-> <<>>, items |-> <<>>]

\* What may be found in place of the snapshot file: no file, a file that
\* cannot be read, text that is not JSON, or JSON in which one or both of
\* the lists are missing.
StoreFiles ==
    {f \in [t : {"missing", "unreadable", "notJSON", "json"},
            hasCollections : BOOLEAN, hasItems : BOOLEAN,
            collections : RecordLists(CollectionKeys, MaxCollections),
            items : RecordLists(ItemKeys, MaxItems)] :
        /\ f.t # "json" => ~f.hasCollections /\ ~f.hasItems
        /\ ~f.hasCollections => f.collections = <<>>
        /\ ~f.hasItems => f.items = <<>>}


\* ------------------------------------------------------------ generators
\* parse(data) of generateNoteFilePath or generateNote throws
GeneratorThrows(element) == element.throws

generateNoteFilePath(element) == element.path

\* getMarker: the kind word of the link and the key of the element.
getMarker(kind, element) == <<kind, element.key>>

\* The string handed to the file operations and to md5: the marker followed
\* by what the note template returns.  (main.ts always puts the marker in
\* front; part_002 does so unless the text of the template holds the
\* marker already: either way the string holds the marker and the text.)
generateNote(kind, element) ==
    [marker |-> getMarker(kind, element), body |-> element.body]

\* A digest taken of the template's text, before the marker is put in.
md5_beforeMarker(note) == [md5of |-> [marker |-> <<"none", 0>>, body |-> note.body]]

\* md5 of a note; distinct notes of the model have distinct digests.
md5(note) == [md5of |-> note]

Notes == [marker : Kinds \X (ItemKeys \cup CollectionKeys), body : Bodies]

\* ----------------------------------------------------------- readLibrary
RECURSIVE MapOfRecords(_)
MapOfRecords(list) ==
    IF list = <<>> THEN EmptyMap
    ELSE LET front == SubSeq(list, 1, Len(list) - 1)
             last == list[Len(list)]
         IN  MapSet(MapOfRecords(front), last.key, last)

\* The inner try of readLibrary: data keeps its default, two empty lists,
\* when readFile or JSON.parse throws.
ParsedData(file) == IF file.t = "json" THEN file ELSE EmptySnapshot

\* The objects of the two maps are shared with the children arrays, so
\* children is kept by key: for every record of a kind the keys of the
\* records pushed to its children array, in the order of the pushes.
NoChildren(map) == [k \in MapKeys(map) |-> <<>>]

NoTree == [collections |-> <<>>, items |-> <<>>, super_collections |-> <<>>]

\* A collection loop that pushes nothing.
nestCollection_none(map, collection, children) == children

\* One turn of the collection loop: a collection whose parentCollection is
\* in the map is pushed to the children of the parent.
nestCollection(map, collection, children) ==
    LET parent == collection.parent
    IN  IF parent # NoParent /\ MapHas(map, parent)
        THEN [children EXCEPT ![parent] = Append(@, collection.key)]
        ELSE children

\* for (const [key, collection] of map.collections); entries is what is
\* left to visit.
RECURSIVE nestCollections(_, _, _)
nestCollections(map, entries, children) ==
    IF entries = <<>> THEN children
    ELSE nestCollections(map, Tail(entries),
                         nestCollection(map, entries[1][2], children))

\* The depth of recursion the engine allows before it throws RangeError;
\* deeper than any chain of distinct collections.
StackLimit == MaxTreeNodes + 1

\* collections.push(...findSuperCollections(collection.parentCollection))
\* with the chain of the parent at the front.
pushSuper_parentFirst(chain, super) == super \o chain

\* collections.push(...findSuperCollections(collection.parentCollection))
pushSuper(chain, super) == chain \o super

\* part_002: findSuperCollections, a closure of readLibrary that calls
\* itself for the parent; depth counts the calls on the stack.
RECURSIVE findSuperCollections(_, _, _)
findSuperCollections(map, collectionKey, depth) ==
    IF depth > StackLimit THEN [threw |-> TRUE, chain |-> <<>>]
    ELSE IF ~MapHas(map, collectionKey) THEN [threw |-> FALSE, chain |-> <<>>]
    ELSE LET collection == MapGet(map, collectionKey)
             up == findSuperCollections(map, collection.parent, depth + 1)
         IN  IF collection.parent = NoParent
             THEN [threw |-> FALSE, chain |-> <<collection.key>>]
             ELSE IF up.threw THEN up
             ELSE [threw |-> FALSE, chain |-> pushSuper(<<collection.key>>, up.chain)]

\* item.collections.forEach(collectionKey =>
\*     item.super_collections = findSuperCollections(collectionKey))
RECURSIVE superCollectionsOf(_, _, _)
superCollectionsOf(map, keys, sofar) ==
    IF keys = <<>> \/ sofar.threw THEN sofar
    ELSE superCollectionsOf(map, Tail(keys), findSuperCollections(map, keys[1], 1))

\* The body of the item loop for an item without parentItem or with a
\* parentItem that is in the map at that moment: the item is pushed to the
\* children of the parent and deleted from the map; part_002 then fills
\* super_collections.  st holds the map, the children, the
\* super_collections and whether the loop threw.
attachItem(v, collections, item, st) ==
    LET parent == item.parent
        attached ==
            IF parent # NoParent
            THEN [st EXCEPT !.children[parent] = Append(@, item.key),
                            !.items = MapDelete(st.items, item.key)]
            ELSE st
        super == superCollectionsOf(collections, item.collections,
                                    [threw |-> FALSE, chain |-> <<>>])
    IN  IF v = "main" \/ item.collections = <<>> THEN attached
        ELSE IF super.threw THEN [attached EXCEPT !.threw = TRUE]
        ELSE [attached EXCEPT !.super_collections[item.key] = super.chain]

\* An item loop without `if (!parent) continue`: parent.children of
\* undefined is a TypeError.
nestItem_unguarded(v, collections, item, st) ==
    IF item.parent # NoParent /\ ~MapHas(st.items, item.parent)
    THEN [st EXCEPT !.threw = TRUE]
    ELSE attachItem(v, collections, item, st)

\* One turn of the item loop: an item whose parentItem is not in the map
\* is left where it is (continue).
nestItem(v, collections, item, st) ==
    IF item.parent # NoParent /\ ~MapHas(st.items, item.parent) THEN st
    ELSE attachItem(v, collections, item, st)

\* for (const [key, item] of map.items); entries is what is left to visit.
RECURSIVE nestItems(_, _, _, _)
nestItems(v, collections, entries, st) ==
    IF entries = <<>> \/ st.threw THEN st
    ELSE nestItems(v, collections, Tail(entries),
                   nestItem(v, collections, entries[1][2], st))

\* data.collections.map / data.items.map of a list that is not there is a
\* TypeError, which the outer catch throws on as "Unable to read library
\* data", as it does with the RangeError of findSuperCollections.
readLibrary(v, file) ==
    LET data == ParsedData(file)
        collections == MapOfRecords(data.collections)
        items == MapOfRecords(data.items)
        nested == nestItems(v, collections, items,
                            [threw |-> FALSE, items |-> items,
                             children |-> NoChildren(items),
                             super_collections |-> NoChildren(items)])
    IN  IF ~data.hasCollections \/ ~data.hasItems \/ nested.threw
        THEN [threw |-> TRUE, collections |-> EmptyMap, items |-> EmptyMap,
              tree |-> NoTree]
        ELSE [threw |-> FALSE,
              collections |-> collections,
              items |-> nested.items,
              tree |-> [collections |-> nestCollections(collections, collections,
                                                        NoChildren(collections)),
                        items |-> nested.children,
                        super_collections |-> nested.super_collections]]

\* ------------------------------------------------------ the status file
\* A JSON value of the status file: an array of [key, {filePath, hash}]
\* pairs, an object without properties, or nothing (the property is not
\* in the file).
JsonArray(pairs) == [t |-> "array", elems |-> pairs]
JsonEmptyObject == [t |-> "object", elems |-> <<>>]
JsonAbsent == [t |-> "absent", elems |-> <<>>]

\* The key of an array element that is no entry object (a number, a
\* string), and the value {} of an entry that has neither filePath nor
\* hash.
NotAnEntry == 0
NoHash == [md5of |-> [marker |-> <<"none", 0>>, body |-> 0]]
NoValue == [filePath |-> NoPath, hash |-> NoHash]

\* valid: the text of the file is JSON.
NoFile ==
    [present |-> FALSE, valid |-> FALSE,
     collections |-> JsonAbsent, items |-> JsonAbsent]

EmptyStatus == [collections |-> EmptyMap, items |-> EmptyMap]

\* main.ts: JSON.stringify(status) of an object whose two properties are
\* Maps; a Map has no enumerable property and serialises as {}.
writeStatus_main(st) ==
    [present |-> TRUE, valid |-> TRUE,
     collections |-> JsonEmptyObject, items |-> JsonEmptyObject]

\* part_002: each Map is written as the array of its entries.
writeStatus_002(st) ==
    [present |-> TRUE, valid |-> TRUE,
     collections |-> JsonArray(st.collections),
     items |-> JsonArray(st.items)]

\* Array.prototype.entries(): pairs of (index, element); the index is a
\* number, written here as a negative integer, and is no record key.
ArrayEntries(json) == [n \in 1..Len(json.elems) |-> <<0 - n, json.elems[n]>>]

\* new Map(iterable): a later entry with a key already seen replaces the
\* value and keeps the place of the first.
RECURSIVE MapFromEntries(_)
MapFromEntries(entries) ==
    IF entries = <<>> THEN EmptyMap
    ELSE LET last == entries[Len(entries)]
         IN  MapSet(MapFromEntries(SubSeq(entries, 1, Len(entries) - 1)),
                    last[1], last[2])

\* main.ts: new Map(data.collections.entries()); entries is not a function
\* of a parsed JSON object and undefined has no property: the TypeError is
\* caught, as are those of readFile and JSON.parse, and both maps are empty.
readStatus_main(file) ==
    IF ~file.present \/ ~file.valid THEN EmptyStatus
    ELSE IF file.collections.t # "array" \/ file.items.t # "array" THEN EmptyStatus
    ELSE [collections |-> ArrayEntries(file.collections),
          items |-> ArrayEntries(file.items)]

\* A readStatus that finds nothing, whatever the file holds.
readStatus_002_empty(file) == EmptyStatus

\* new Map(value) throws a TypeError for an object, which is not
\* iterable, and for an array with an element that is no entry object;
\* new Map(undefined) is an empty Map.
MapThrows(json) ==
    \/ json.t = "object"
    \/ json.t = "array" /\ \E n \in 1..Len(json.elems) : json.elems[n][1] = NotAnEntry

\* part_002: new Map(data.collections) of the pair list; when readFile,
\* JSON.parse or new Map throws, the catch returns empty maps.
readStatus_002(file) ==
    IF ~file.present \/ ~file.valid THEN EmptyStatus
    ELSE IF MapThrows(file.collections) \/ MapThrows(file.items) THEN EmptyStatus
    ELSE [collections |-> MapFromEntries(file.collections.elems),
          items |-> MapFromEntries(file.items.elems)]

readStatus(v, file) ==
    IF v = "main" THEN readStatus_main(file) ELSE readStatus_002(file)

writeStatus(v, st) ==
    IF v = "main" THEN writeStatus_main(st) ELSE writeStatus_002(st)

\* -------------------------------------------------------- computeChanges
\* The locals of applyUpdates that the compute phase fills: the working
\* copy of the status read, the four dictionaries (keyed by element key,
\* shared by both kinds) and updatedStatus.
NoChanges(st) ==
    [status |-> st, threw |-> FALSE,
     renames |-> EmptyMap, updates |-> EmptyMap,
     deletes |-> EmptyMap, creates |-> EmptyMap,
     updatedStatus |-> EmptyStatus]

\* The part of computeChanges both builds share, for a non-empty filePath.
computeExisting(c, kind, element, filePath) ==
    LET note == generateNote(kind, element)
        hash == md5(note)
        key == element.key
        old == c.status[kind]
        has == MapHas(old, key)
        prev == MapGet(old, key)
        ren == IF has /\ prev.filePath # filePath
               THEN MapSet(c.renames, key,
                           [from |-> prev.filePath, to |-> filePath, note |-> note])
               ELSE c.renames
        upd == IF has /\ prev.hash # hash
               THEN MapSet(c.updates, key, [filePath |-> filePath, note |-> note])
               ELSE c.updates
        cre == IF has THEN c.creates
               ELSE MapSet(c.creates, key, [filePath |-> filePath, note |-> note])
    IN  [c EXCEPT
           !.renames = ren,
           !.updates = upd,
           !.creates = cre,
           !.status[kind] = IF has THEN MapDelete(old, key) ELSE old,
           !.updatedStatus[kind] =
               MapSet(c.updatedStatus[kind], key, [filePath |-> filePath, hash |-> hash])]

\* main.ts: an element without file path is left alone (its status entry
\* stays in the working copy).
computeChanges_main(c, kind, element) ==
    LET filePath == generateNoteFilePath(element)
    IN  IF filePath = NoPath THEN c
        ELSE computeExisting(c, kind, element, filePath)

\* part_002: an element without file path has its previous file deleted
\* and its entry taken out of the working copy.
computeChanges_002(c, kind, element) ==
    LET filePath == generateNoteFilePath(element)
        key == element.key
        old == c.status[kind]
    IN  IF filePath = NoPath
        THEN IF MapHas(old, key)
             THEN [c EXCEPT
                     !.deletes = IF MapGet(old, key).filePath # NoPath
                                 THEN MapSet(c.deletes, key, MapGet(old, key).filePath)
                                 ELSE c.deletes,
                     !.status[kind] = MapDelete(old, key)]
             ELSE c
        ELSE computeExisting(c, kind, element, filePath)

\* computeChanges has no try: what a generator throws leaves the loops and
\* applyUpdates.
computeChanges(v, c, kind, element) ==
    IF c.threw THEN c
    ELSE IF GeneratorThrows(element) THEN [c EXCEPT !.threw = TRUE]
    ELSE IF v = "main" THEN computeChanges_main(c, kind, element)
    ELSE computeChanges_002(c, kind, element)

\* for (const element of data.<kind>.values()) computeChanges(...)
RECURSIVE computeAll(_, _, _, _)
computeAll(v, c, kind, elements) ==
    IF elements = <<>> THEN c
    ELSE computeAll(v, computeChanges(v, c, kind, elements[1][2]), kind, Tail(elements))

\* main.ts: for (const [key, element] of status.<kind>.entries())
\*              deletes[key] = element.filePath
RECURSIVE deleteRemaining(_, _)
deleteRemaining(c, entries) ==
    IF entries = <<>> \/ c.threw THEN c
    ELSE deleteRemaining(
             [c EXCEPT !.deletes = MapSet(c.deletes, entries[1][1], entries[1][2].filePath)],
             Tail(entries))

\* The compute phase of applyUpdates.
computePlan_main(data, st) ==
    LET c1 == computeAll("main", NoChanges(st), "collections", data.collections)
        c2 == deleteRemaining(c1, c1.status.collections)
        c3 == computeAll("main", c2, "items", data.items)
    IN  deleteRemaining(c3, c3.status.items)

computePlan_002(data, st) ==
    LET c1 == computeAll("part_002", NoChanges(st), "collections", data.collections)
    IN  computeAll("part_002", c1, "items", data.items)

computePlan(v, data, st) ==
    IF v = "main" THEN computePlan_main(data, st) ELSE computePlan_002(data, st)

\* -------------------------------------------------------------- the vault
\* The vault is a function from the paths that have a file to the content.
\* Each operation gives the vault after it and whether it threw.
EmptyVault == [q \in {} |-> 0]

Threw(vlt) == [threw |-> TRUE, vault |-> vlt]
Done(vlt) == [threw |-> FALSE, vault |-> vlt]

Put(vlt, p, note) == [q \in DOMAIN vlt \cup {p} |-> IF q = p THEN note ELSE vlt[q]]
Remove(vlt, p) == [q \in DOMAIN vlt \ {p} |-> vlt[q]]

\* this.app.vault.getAbstractFileByPath(filePath): is there a file
aquireFile(vlt, p) == p \in DOMAIN vlt

\* this.app.vault.create: fails when the path is taken
vault_create(vlt, p, note) ==
    IF p \in DOMAIN vlt THEN Threw(vlt) ELSE Done(Put(vlt, p, note))

\* this.app.vault.modify of a file found before
vault_modify(vlt, p, note) ==
    IF p \notin DOMAIN vlt THEN Threw(vlt) ELSE Done(Put(vlt, p, note))

\* this.app.vault.rename / fileManager.renameFile: fails when the
\* destination is taken; the content moves with the file
vault_rename(vlt, from, to) ==
    IF from \notin DOMAIN vlt \/ to \in DOMAIN vlt THEN Threw(vlt)
    ELSE Done(Put(Remove(vlt, from), to, vlt[from]))

\* this.app.vault.delete
vault_delete(vlt, p) ==
    IF p \notin DOMAIN vlt THEN Threw(vlt) ELSE Done(Remove(vlt, p))

\* The four appliers; fn is what aquireFile returned when the applier was
\* called, vlt the vault when the awaited part runs.
renameFile(vlt, fn, oldPath, newPath, note) ==
    IF ~fn THEN vault_create(vlt, newPath, note)
    ELSE vault_rename(vlt, oldPath, newPath)

createFile(vlt, fn, filePath, note) ==
    IF fn THEN vault_modify(vlt, filePath, note)
    ELSE vault_create(vlt, filePath, note)

\* An updateFile that leaves a missing file missing.
updateFile_onlyExisting(vlt, fn, filePath, note) ==
    IF ~fn THEN Done(vlt)
    ELSE vault_modify(vlt, filePath, note)

updateFile(vlt, fn, filePath, note) ==
    IF ~fn THEN createFile(vlt, fn, filePath, note)
    ELSE vault_modify(vlt, filePath, note)

\* A deleteFile that hands a missing file to the vault.
deleteFile_strict(vlt, fn, filePath) == vault_delete(vlt, filePath)

deleteFile(vlt, fn, filePath) ==
    IF ~fn THEN Done(vlt) ELSE vault_delete(vlt, filePath)

\* ------------------------------------------------------- the apply loops
\* The loops with the delete loop moved to the front.
Phases_deletesBeforeRenames == <<"deletes", "renames", "updates", "creates">>

\* The loops with the delete loop moved before the update loop.
Phases_deleteFirst == <<"renames", "deletes", "updates", "creates">>

Phases == <<"renames", "updates", "deletes", "creates">>

PhaseNo(ph) == CHOOSE n \in 1..4 : Phases[n] = ph

\* The loop and index of the first operation at or after loop n, index i;
\* when every loop is exhausted the pass goes on to writeStatus.
RECURSIVE Position(_, _, _)
Position(pl, n, i) ==
    IF n > 4 THEN [pc |-> "writeStatus", idx |-> 0]
    ELSE IF i <= Len(pl[Phases[n]]) THEN [pc |-> Phases[n], idx |-> i]
    ELSE Position(pl, n + 1, 1)

NoPlan == [renames |-> EmptyMap, updates |-> EmptyMap,
           deletes |-> EmptyMap, creates |-> EmptyMap]

NotRunning == [type |-> "none", key |-> 0, fn |-> FALSE]

\* The path whose file the applier of an operation looks up first.
LookupPath(type, value) ==
    IF type = "renames" THEN value.from
    ELSE IF type = "deletes" THEN value
    ELSE value.filePath

\* ---------------------------------------------------------------- a pass
NoKey == ""

\* unreadable: the pass found no snapshot it could parse.
\* writeFailed: the pass ended with writeStatus throwing; then status, plan
\* and vault are the status it had read, its plan and the vault it left.
NoLastPass ==
    [done |-> FALSE, ok |-> FALSE, same |-> FALSE, writeFailed |-> FALSE,
     unreadable |-> FALSE]

\* No second applyUpdates is in flight.  disabled: the Apply button is
\* disabled; finished: an applyAllUpdates of the button has resolved.
NoSecond ==
    [pc |-> "idle", plan |-> NoPlan, idx |-> 0, running |-> NotRunning,
     updatedStatus |-> EmptyStatus, disabled |-> FALSE, finished |-> FALSE]

\* this.last_sync before the first pass has completed.
NoDate == -1

\* clearCache has not been called.
NoLibraries == [files |-> <<>>, idx |-> 0, result |-> "none"]

NotLoaded ==
    [fn |-> "none", threw |-> FALSE, collections |-> EmptyMap, items |-> EmptyMap,
     tree |-> NoTree]

Init ==
    /\ version \in Versions
    /\ store = EmptySnapshot
    /\ statusFile = NoFile
    /\ vault = EmptyVault
    /\ pc = "idle"
    /\ status = EmptyStatus
    /\ plan = NoPlan
    /\ updatedStatus = EmptyStatus
    /\ idx = 0
    /\ running = NotRunning
    /\ failed = FALSE
    /\ log = <<>>
    /\ vaultAtStart = EmptyVault
    /\ handed = EmptyStatus
    /\ lastPass = NoLastPass
    /\ passes = 0
    /\ api_key \in IF version = "main" THEN {"key"} ELSE {NoKey, "key"}
    /\ syncResult = "none"
    /\ cleared = FALSE
    /\ loaded = NotLoaded
    /\ second = NoSecond
    /\ now = 0
    /\ last_sync = NoDate
    /\ debounce_seconds = 0
    /\ libraries = NoLibraries

\* A sync that never holds back.
RecentlySynced_never(d) == FALSE

\* The cooldown test of sync: a pass has completed, a cooldown is asked for
\* and less than that many seconds have gone by since.
RecentlySynced(d) ==
    /\ last_sync # NoDate
    /\ d > 0
    /\ now - last_sync < d

\* sync(debounce_seconds): within the cooldown the call returns false at
\* once, otherwise a pass starts.  passes counts the calls.
syncCall(d) ==
    /\ pc = "idle"
    /\ passes < MaxPasses
    /\ passes' = passes + 1
    /\ debounce_seconds' = d
    /\ IF RecentlySynced(d)
       THEN /\ syncResult' = "false"
            /\ pc' = pc
       ELSE /\ pc' = "syncWithZotero"
            /\ syncResult' = "pending"
    /\ UNCHANGED <<version, store, statusFile, vault, status, plan, updatedStatus,
                   idx, running, failed, log, vaultAtStart, handed, lastPass,
                   api_key, cleared, loaded, second,
                   now, last_sync, libraries>>

\* sync(): a trigger (command, ribbon, interval timer, startup) starts a
\* pass; none of them passes a cooldown.
sync == syncCall(0)

\* The API key setting of part_002: the value is kept when authenticate
\* accepts it, and the handler goes on to sync().
enterApiKey ==
    /\ version = "part_002"
    /\ pc = "idle"
    /\ api_key = NoKey
    /\ passes < MaxPasses
    /\ api_key' = "key"
    /\ passes' = passes + 1
    /\ pc' = "syncWithZotero"
    /\ syncResult' = "pending"
    /\ debounce_seconds' = 0
    /\ UNCHANGED <<version, store, statusFile, vault, status, plan, updatedStatus,
                   idx, running, failed, log, vaultAtStart, handed, lastPass,
                   cleared, loaded, second,
                   now, last_sync, libraries>>

\* An authenticate that lets every key pass.
authenticate_skipped(key, login) == "ok"

\* authenticate(): a key without a non-blank character is refused, and the
\* error of client.login is thrown on; login says whether the server
\* accepts the key.
authenticate(key, login) ==
    IF key = NoKey THEN "no key"
    ELSE IF ~login THEN "login failed"
    ELSE "ok"

\* sync() is rejected with what one of its awaits threw.
\* A rejection that stamps last_sync all the same.
Rejected_stamped(error) ==
    /\ pc' = "idle"
    /\ syncResult' = error
    /\ last_sync' = now
    /\ UNCHANGED <<version, store, statusFile, vault, status, plan, updatedStatus,
                   idx, running, failed, log, vaultAtStart, handed, passes,
                   api_key, cleared, loaded, second,
                   now, debounce_seconds, libraries>>

Rejected(error) ==
    /\ pc' = "idle"
    /\ syncResult' = error
    /\ UNCHANGED <<version, store, statusFile, vault, status, plan, updatedStatus,
                   idx, running, failed, log, vaultAtStart, handed, passes,
                   api_key, cleared, loaded, second,
                   now, last_sync, debounce_seconds, libraries>>

\* syncWithZotero(): part_002 authenticates first; then the client brings
\* the snapshot file up to date, to one of the given snapshots.  main.ts
\* does not look at the key here.
syncWithZoteroTo(snapshots) ==
    /\ pc = "syncWithZotero"
    /\ \E login \in BOOLEAN :
          LET auth == IF version = "main" THEN "ok" ELSE authenticate(api_key, login)
          IN  IF auth # "ok"
              THEN Rejected(auth) /\ UNCHANGED lastPass
              ELSE /\ store' \in snapshots
                   /\ lastPass' = [lastPass EXCEPT !.same = (store' = store)]
                   /\ pc' = "applyUpdates"
                   /\ UNCHANGED <<version, statusFile, vault, status, plan,
                                  updatedStatus, idx, running, failed, log,
                                  vaultAtStart, handed, passes, api_key,
                                  syncResult, cleared, loaded, second,
                                  now, last_sync, debounce_seconds, libraries>>

syncWithZotero == syncWithZoteroTo(Snapshots)

\* applyUpdates(), up to the first file operation.  What readLibrary or a
\* generator throws is not caught in applyUpdates, applyAllUpdates or
\* sync.
applyUpdates ==
    /\ pc = "applyUpdates"
    /\ LET data == readLibrary(version, store)
           st == readStatus(version, statusFile)
           c == computePlan(version, data, st)
           pl == [renames |-> c.renames, updates |-> c.updates,
                  deletes |-> c.deletes, creates |-> c.creates]
           pos == Position(pl, 1, 1)
       IN  IF data.threw
           THEN Rejected("read failed") /\ lastPass' = NoLastPass
           ELSE IF c.threw
           THEN Rejected("generator failed") /\ lastPass' = NoLastPass
           ELSE /\ status' = st
                /\ plan' = pl
                /\ updatedStatus' = c.updatedStatus
                /\ pc' = pos.pc
                /\ idx' = pos.idx
                /\ failed' = FALSE
                /\ log' = <<>>
                /\ vaultAtStart' = vault
                /\ UNCHANGED <<version, store, statusFile, vault, running, handed,
                               lastPass, passes, api_key, syncResult, cleared, loaded, second,
                               now, last_sync, debounce_seconds, libraries>>

\* The loop at pc calls the applier of its next operation.
Call ==
    /\ pc \in {"renames", "updates", "deletes", "creates"}
    /\ running = NotRunning
    /\ LET e == plan[pc][idx]
       IN  /\ running' = [type |-> pc, key |-> e[1],
                          fn |-> aquireFile(vault, LookupPath(pc, e[2]))]
           /\ log' = Append(log, [ev |-> "call", type |-> pc, key |-> e[1],
                                   flag |-> aquireFile(vault, LookupPath(pc, e[2]))])
    /\ UNCHANGED <<version, store, statusFile, vault, pc, status, plan,
                   updatedStatus, idx, failed, vaultAtStart, handed, lastPass, passes,
                   api_key, syncResult, cleared, loaded, second,
                   now, last_sync, debounce_seconds, libraries>>

\* Apply loops without the try/catch around each operation: an applier
\* that throws ends the loops.
Return_uncaught(type, result) ==
    /\ vault' = result.vault
    /\ failed' = (failed \/ result.threw)
    /\ running' = NotRunning
    /\ LET pos == IF result.threw THEN [pc |-> "writeStatus", idx |-> 0]
                  ELSE Position(plan, PhaseNo(type), idx + 1)
       IN  pc' = pos.pc /\ idx' = pos.idx
    /\ log' = Append(log, [ev |-> "return", type |-> type, key |-> running.key,
                               flag |-> result.threw])
    /\ UNCHANGED <<version, store, statusFile, status, plan, updatedStatus,
                   vaultAtStart, handed, lastPass, passes,
                   api_key, syncResult, cleared, loaded, second,
                   now, last_sync, debounce_seconds, libraries>>

\* The applier returns or throws; the loop catches, logs and goes on.
Return(type, result) ==
    /\ vault' = result.vault
    /\ failed' = (failed \/ result.threw)
    /\ running' = NotRunning
    /\ LET pos == Position(plan, PhaseNo(type), idx + 1)
       IN  pc' = pos.pc /\ idx' = pos.idx
    /\ log' = Append(log, [ev |-> "return", type |-> type, key |-> running.key,
                               flag |-> result.threw])
    /\ UNCHANGED <<version, store, statusFile, status, plan, updatedStatus,
                   vaultAtStart, handed, lastPass, passes,
                   api_key, syncResult, cleared, loaded, second,
                   now, last_sync, debounce_seconds, libraries>>

applyRename ==
    /\ pc = "renames" /\ running.type = "renames"
    /\ LET v == plan.renames[idx][2]
       IN  Return("renames", renameFile(vault, running.fn, v.from, v.to, v.note))

applyUpdate ==
    /\ pc = "updates" /\ running.type = "updates"
    /\ LET v == plan.updates[idx][2]
       IN  Return("updates", updateFile(vault, running.fn, v.filePath, v.note))

applyDelete ==
    /\ pc = "deletes" /\ running.type = "deletes"
    /\ Return("deletes", deleteFile(vault, running.fn, plan.deletes[idx][2]))

applyCreate ==
    /\ pc = "creates" /\ running.type = "creates"
    /\ LET v == plan.creates[idx][2]
       IN  Return("creates", createFile(vault, running.fn, v.filePath, v.note))

\* await this.writeStatus(library.prefix, updatedStatus)
applyWriteStatus ==
    /\ pc = "writeStatus"
    /\ statusFile' = writeStatus(version, updatedStatus)
    /\ handed' = updatedStatus
    /\ pc' = "last_sync"
    /\ UNCHANGED <<version, store, vault, status, plan, updatedStatus, idx,
                   running, failed, log, vaultAtStart, lastPass, passes,
                   api_key, syncResult, cleared, loaded, second,
                   now, last_sync, debounce_seconds, libraries>>

\* this.last_sync = new Date(): the pass is over
setLastSync ==
    /\ pc = "last_sync"
    /\ lastPass' = [done |-> TRUE, ok |-> ~failed, same |-> FALSE, writeFailed |-> FALSE,
                    unreadable |-> (store.t # "json")]
    /\ pc' = "idle"
    /\ syncResult' = "resolved"
    /\ cleared' = FALSE
    /\ status' = EmptyStatus
    /\ plan' = NoPlan
    /\ updatedStatus' = EmptyStatus
    /\ failed' = FALSE
    /\ log' = <<>>
    /\ vaultAtStart' = EmptyVault
    /\ last_sync' = now
    /\ UNCHANGED <<version, store, statusFile, vault, idx, running, handed, passes,
                   api_key, loaded, second,
                   now, debounce_seconds, libraries>>

\* clearStatus(): the status file is unlinked.  (Unlinking a file that is
\* not there throws and changes nothing.)
clearStatus ==
    /\ pc = "idle"
    /\ statusFile.present
    /\ statusFile' = NoFile
    /\ cleared' = TRUE
    /\ UNCHANGED <<version, store, vault, pc, status, plan, updatedStatus, idx,
                   running, failed, log, vaultAtStart, handed, lastPass, passes,
                   api_key, syncResult, loaded, second,
                   now, last_sync, debounce_seconds, libraries>>

Next ==
    \/ sync
    \/ enterApiKey
    \/ syncWithZotero
    \/ applyUpdates
    \/ Call
    \/ applyRename
    \/ applyUpdate
    \/ applyDelete
    \/ applyCreate
    \/ applyWriteStatus
    \/ setLastSync
    \/ clearStatus

Spec == Init /\ [][Next]_vars

\* ================================================================ claims
\* The pass has computed its plan and has not yet written the status.
Computed == pc \in {"renames", "updates", "deletes", "creates", "writeStatus"}

\* Every file operation of the plan has returned; the status is not yet
\* written.
Applied == pc = "writeStatus"

PlanIsEmpty ==
    /\ plan.renames = EmptyMap
    /\ plan.updates = EmptyMap
    /\ plan.deletes = EmptyMap
    /\ plan.creates = EmptyMap

\* The pass runs over the snapshot of the pass before it, which completed
\* without a failing operation, and the status file that pass wrote has
\* not been removed since.
SecondPassOverSameSnapshot ==
    lastPass.done /\ lastPass.ok /\ lastPass.same /\ ~cleared

\* C1: in part_002, a pass over the same snapshot as the completed pass
\* before it, in which no operation failed, and which starts from the
\* status that pass wrote, has an empty plan: no rename, update, delete
\* or create.
C1_Idempotence ==
    (version = "part_002" /\ Computed /\ SecondPassOverSameSnapshot) => PlanIsEmpty

\* C1 witness: such a second pass over a snapshot with at least two
\* generated files has reached writeStatus.
C1_Witness ==
    /\ version = "part_002"
    /\ pc = "writeStatus"
    /\ SecondPassOverSameSnapshot
    /\ Len(updatedStatus.items) + Len(updatedStatus.collections) >= 2
    /\ PlanIsEmpty

\* C2: in main.ts, the status maps readStatus returns at the start of a
\* pass are the maps the pass before handed to writeStatus.
C2_StatusRoundTrip ==
    (version = "main" /\ Computed /\ lastPass.done) => status = handed

Rank(type) == CHOOSE n \in 1..4 : <<"renames", "updates", "deletes", "creates">>[n] = type

\* C3: in one pass the appliers are called in the order rename, update,
\* delete, create, and a call comes only after the call before it returned.
C3_PlanOrdering ==
    /\ \A a, b \in 1..Len(log) :
          (a < b /\ log[a].ev = "call" /\ log[b].ev = "call")
              => Rank(log[a].type) <= Rank(log[b].type)
    /\ \A n \in 1..Len(log) :
          IF n % 2 = 1 THEN log[n].ev = "call"
          ELSE /\ log[n].ev = "return"
               /\ log[n].type = log[n - 1].type
               /\ log[n].key = log[n - 1].key

\* C3 witness: a pass has applied operations of all four types.
C3_Witness ==
    /\ pc = "writeStatus"
    /\ \A t \in {"renames", "updates", "deletes", "creates"} :
          \E n \in 1..Len(log) : log[n].ev = "return" /\ log[n].type = t

\* ------------------------------------------------ helpers of the claims
Entries(m) == {m[n] : n \in 1..Len(m)}

\* The applier of the operation of this type and key was called and
\* aquireFile found / did not find a file at the path it looked up.
CalledFound(type, k) ==
    \E n \in 1..Len(log) :
        log[n].ev = "call" /\ log[n].type = type /\ log[n].key = k /\ log[n].flag

CalledMissing(type, k) ==
    \E n \in 1..Len(log) :
        log[n].ev = "call" /\ log[n].type = type /\ log[n].key = k /\ ~log[n].flag

\* The applier returned normally / threw.
Succeeded(type, k) ==
    \E n \in 1..Len(log) :
        log[n].ev = "return" /\ log[n].type = type /\ log[n].key = k /\ ~log[n].flag

Thrown(type, k) ==
    \E n \in 1..Len(log) :
        log[n].ev = "return" /\ log[n].type = type /\ log[n].key = k /\ log[n].flag

\* Some record of the pass other than the one with this marker generates
\* the path.
GeneratedByAnother(path, marker) ==
    \E kind \in Kinds : \E e \in Entries(updatedStatus[kind]) :
        e[2].filePath = path /\ <<kind, e[1]>> # marker

\* A create c wants the path a rename r of another record moved a file
\* away from.
VacatedFor(c, r) ==
    /\ c[2].filePath = r[2].from
    /\ c[2].note.marker # r[2].note.marker
    /\ CalledFound("renames", r[1])
    /\ Succeeded("renames", r[1])

\* A rename r has as target the path that holds, when the pass starts, the
\* file of a record the pass deletes (d), while the file of the renamed
\* record is at the old path.
TargetOfDeleted(r, d) ==
    /\ d[2] = r[2].to
    /\ r[2].to \in DOMAIN vaultAtStart
    /\ vaultAtStart[r[2].to].marker[2] = d[1]
    /\ vaultAtStart[r[2].to].marker # r[2].note.marker
    /\ r[2].from \in DOMAIN vaultAtStart
    /\ vaultAtStart[r[2].from].marker = r[2].note.marker

\* C4 as the spec states it: (i) the create of a vacated path finds the
\* path free; (ii) the rename onto the path of a file the pass deletes
\* succeeds and the renamed record's file ends at the target.
C4_OrderPreventsCollisions ==
    Applied =>
        /\ \A c \in Entries(plan.creates) : \A r \in Entries(plan.renames) :
              VacatedFor(c, r) =>
                  CalledMissing("creates", c[1]) /\ Succeeded("creates", c[1])
        /\ \A r \in Entries(plan.renames) : \A d \in Entries(plan.deletes) :
              TargetOfDeleted(r, d) =>
                  /\ Succeeded("renames", r[1])
                  /\ r[2].to \in DOMAIN vault
                  /\ vault[r[2].to].marker = r[2].note.marker

\* C4 amended: (i) holds when no other record of the pass generates the
\* created path; (ii) the rename onto the path of a file the pass deletes
\* throws, because deletes run after renames, unless another rename of the
\* pass moves that file away.
C4_OrderAndCollisions ==
    Applied =>
        /\ \A c \in Entries(plan.creates) : \A r \in Entries(plan.renames) :
              (VacatedFor(c, r) /\ ~GeneratedByAnother(c[2].filePath, c[2].note.marker)) =>
                  CalledMissing("creates", c[1]) /\ Succeeded("creates", c[1])
        /\ \A r \in Entries(plan.renames) : \A d \in Entries(plan.deletes) :
              (/\ TargetOfDeleted(r, d)
               /\ \A q \in Entries(plan.renames) : q[2].from # r[2].to) =>
                  Thrown("renames", r[1])

\* The case of the first half of C4: a create has taken a path that a
\* rename of the same pass vacated and that no other record generates.
C4_VacatedCase ==
    /\ Applied
    /\ \E c \in Entries(plan.creates) : \E r \in Entries(plan.renames) :
          /\ VacatedFor(c, r)
          /\ ~GeneratedByAnother(c[2].filePath, c[2].note.marker)
          /\ Succeeded("creates", c[1])

\* C4 witness: a rename onto the path of a file that the pass deletes has
\* thrown; after the apply loops the renamed record's file is still at
\* its old path and the target path is empty.
C4_Witness ==
    /\ Applied
    /\ \E r \in Entries(plan.renames) : \E d \in Entries(plan.deletes) :
          /\ TargetOfDeleted(r, d)
          /\ \A q \in Entries(plan.renames) : q[2].from # r[2].to
          /\ Thrown("renames", r[1])
          /\ r[2].from \in DOMAIN vault
          /\ r[2].to \notin DOMAIN vault

\* --------------------------------------------- the plan, record by record
\* The previous status of a kind: what the pass before handed to
\* writeStatus.
Previous(kind) == handed[kind]

SnapshotKeys(kind) == {store[kind][n].key : n \in 1..Len(store[kind])}

SnapshotRecords(kind) == {store[kind][n] : n \in 1..Len(store[kind])}

\* The plan holds an operation of this type that belongs to the record
\* (kind, k): its note carries the record's marker.
HasOp(type, kind, k) ==
    \E e \in Entries(plan[type]) : e[2].note.marker = <<kind, k>>

HasDelete(k) == MapHas(plan.deletes, k)

HasDeleteOf(k, path) == <<k, path>> \in Entries(plan.deletes)

HasCreate(kind, rec) ==
    <<rec.key, [filePath |-> rec.path, note |-> generateNote(kind, rec)]>>
        \in Entries(plan.creates)

HasRename(kind, rec, from) ==
    <<rec.key, [from |-> from, to |-> rec.path, note |-> generateNote(kind, rec)]>>
        \in Entries(plan.renames)

HasUpdate(kind, rec) ==
    <<rec.key, [filePath |-> rec.path, note |-> generateNote(kind, rec)]>>
        \in Entries(plan.updates)

\* C5: in main.ts, a key of the previous status whose record is not in
\* the snapshot gets exactly one DELETE, of its previous path, no other
\* operation, and no entry in the new status.
C5_DisappearanceDeletion ==
    (version = "main" /\ Computed) =>
        \A kind \in Kinds : \A k \in MapKeys(Previous(kind)) :
            k \notin SnapshotKeys(kind) =>
                /\ HasDeleteOf(k, MapGet(Previous(kind), k).filePath)
                /\ \A t \in {"renames", "updates", "creates"} : ~HasOp(t, kind, k)
                /\ ~MapHas(updatedStatus[kind], k)

\* C6: a record whose generated path is empty has no entry in the new
\* status and no CREATE, RENAME or UPDATE; when it has a previous entry,
\* the plan holds the DELETE of the previous path.
C6_SkipSemantics ==
    Computed =>
        \A kind \in Kinds : \A rec \in SnapshotRecords(kind) :
            rec.path = NoPath =>
                /\ ~MapHas(updatedStatus[kind], rec.key)
                /\ \A t \in {"renames", "updates", "creates"} : ~HasOp(t, kind, rec.key)
                /\ MapHas(Previous(kind), rec.key) =>
                       HasDeleteOf(rec.key, MapGet(Previous(kind), rec.key).filePath)

\* C7: in main.ts, a record with a path gets a CREATE(path, content)
\* exactly when its key has no previous entry, and then no RENAME,
\* UPDATE or DELETE.
C7_CreateIffNew ==
    (version = "main" /\ Computed) =>
        \A kind \in Kinds : \A rec \in SnapshotRecords(kind) :
            rec.path # NoPath =>
                /\ HasCreate(kind, rec) <=> ~MapHas(Previous(kind), rec.key)
                /\ ~MapHas(Previous(kind), rec.key) =>
                       /\ ~HasOp("renames", kind, rec.key)
                       /\ ~HasOp("updates", kind, rec.key)
                       /\ ~HasDelete(rec.key)

\* The record has a previous entry; its path / its hash differs from what
\* is generated now.
PathChanged(kind, rec) ==
    /\ rec.path # NoPath
    /\ MapHas(Previous(kind), rec.key)
    /\ MapGet(Previous(kind), rec.key).filePath # rec.path

HashChanged(kind, rec) ==
    /\ rec.path # NoPath
    /\ MapHas(Previous(kind), rec.key)
    /\ MapGet(Previous(kind), rec.key).hash # md5(generateNote(kind, rec))

\* C8: in main.ts, a record whose path changed and whose hash did not gets
\* exactly the RENAME from the previous path to the generated one, no
\* UPDATE, CREATE or DELETE, and the new status entry {path, hash}.
C8_RenameOnly ==
    (version = "main" /\ Computed) =>
        \A kind \in Kinds : \A rec \in SnapshotRecords(kind) :
            (PathChanged(kind, rec) /\ ~HashChanged(kind, rec)) =>
                /\ HasRename(kind, rec, MapGet(Previous(kind), rec.key).filePath)
                /\ ~HasOp("updates", kind, rec.key)
                /\ ~HasOp("creates", kind, rec.key)
                /\ ~HasDelete(rec.key)
                /\ MapHas(updatedStatus[kind], rec.key)
                /\ MapGet(updatedStatus[kind], rec.key) =
                       [filePath |-> rec.path, hash |-> md5(generateNote(kind, rec))]

\* C9: in main.ts, a record whose hash changed and whose path did not
\* gets exactly one UPDATE(path, content), no RENAME, CREATE or DELETE.
C9_UpdateOnly ==
    (version = "main" /\ Computed) =>
        \A kind \in Kinds : \A rec \in SnapshotRecords(kind) :
            (HashChanged(kind, rec) /\ ~PathChanged(kind, rec)) =>
                /\ HasUpdate(kind, rec)
                /\ ~HasOp("renames", kind, rec.key)
                /\ ~HasOp("creates", kind, rec.key)
                /\ ~HasDelete(rec.key)

\* C10: in main.ts, a record whose path and hash both changed gets a
\* RENAME and an UPDATE, and once the plan is applied without a failing
\* operation no file is at the previous path and the file at the
\* generated path holds the generated content.
C10_RenameAndUpdate ==
    (version = "main" /\ Computed) =>
        \A kind \in Kinds : \A rec \in SnapshotRecords(kind) :
            (PathChanged(kind, rec) /\ HashChanged(kind, rec)) =>
                /\ HasRename(kind, rec, MapGet(Previous(kind), rec.key).filePath)
                /\ HasUpdate(kind, rec)
                /\ (Applied /\ ~failed) =>
                       /\ MapGet(Previous(kind), rec.key).filePath \notin DOMAIN vault
                       /\ rec.path \in DOMAIN vault
                       /\ vault[rec.path] = generateNote(kind, rec)

\* ------------------------------------------------ failures of operations
\* The status has been written; the log of the pass is still there.
Written == pc = "last_sync"

\* The operations of the plan, as <<type, key>>.
Operations ==
    {<<t, e[1]>> : t \in {"renames"}, e \in Entries(plan.renames)}
        \cup {<<t, e[1]>> : t \in {"updates"}, e \in Entries(plan.updates)}
        \cup {<<t, e[1]>> : t \in {"deletes"}, e \in Entries(plan.deletes)}
        \cup {<<t, e[1]>> : t \in {"creates"}, e \in Entries(plan.creates)}

ThrownOperations == {op \in Operations : Thrown(op[1], op[2])}

Attempted(op) ==
    \E n \in 1..Len(log) :
        log[n].ev = "call" /\ log[n].type = op[1] /\ log[n].key = op[2]

\* What the operation is to leave in the vault.
EffectPresent(op) ==
    LET value == MapGet(plan[op[1]], op[2])
    IN  IF op[1] = "renames" THEN value.to \in DOMAIN vault
        ELSE IF op[1] = "deletes" THEN value \notin DOMAIN vault
        ELSE value.filePath \in DOMAIN vault /\ vault[value.filePath] = value.note

\* The paths an operation reads or writes.
PathsOf(op) ==
    LET value == MapGet(plan[op[1]], op[2])
    IN  IF op[1] = "renames" THEN {value.from, value.to}
        ELSE IF op[1] = "deletes" THEN {value}
        ELSE {value.filePath}

\* The path at which an operation leaves its effect.
EffectPath(op) ==
    LET value == MapGet(plan[op[1]], op[2])
    IN  IF op[1] = "renames" THEN value.to
        ELSE IF op[1] = "deletes" THEN value
        ELSE value.filePath

CallNo(op) ==
    CHOOSE n \in 1..Len(log) :
        log[n].ev = "call" /\ log[n].type = op[1] /\ log[n].key = op[2]

\* Some operation called after op works on the path of op's effect.
Overtaken(op) ==
    \E other \in Operations :
        /\ Attempted(other)
        /\ CallNo(other) > CallNo(op)
        /\ EffectPath(op) \in PathsOf(other)

\* C11 as the spec states it: when exactly one operation of the plan
\* threw, every other operation was attempted and its effect is in the
\* vault when the pass has written the status, and the status is written.
C11_FailureIsolation ==
    (Written /\ Cardinality(ThrownOperations) = 1) =>
        /\ \A op \in Operations \ ThrownOperations :
              Attempted(op) /\ EffectPresent(op)
        /\ statusFile = writeStatus(version, updatedStatus)

\* C11 amended: whatever number of operations threw, every operation of
\* the plan was attempted and returned, the status is written, and the
\* effect of each operation that did not throw is in the vault unless an
\* operation called after it works on the same path.
C11_FailuresAreIsolated ==
    Written =>
        /\ \A op \in Operations :
              /\ Attempted(op)
              /\ Succeeded(op[1], op[2]) \/ Thrown(op[1], op[2])
              /\ (~Thrown(op[1], op[2]) /\ ~Overtaken(op)) => EffectPresent(op)
        /\ statusFile = writeStatus(version, updatedStatus)

\* C11 witness: one operation threw, two other operations called after it
\* did not, and their effects are in the vault when the status is written.
C11_Witness ==
    /\ Written
    /\ statusFile = writeStatus(version, updatedStatus)
    /\ \E bad \in ThrownOperations :
          /\ ThrownOperations = {bad}
          /\ \E op1, op2 \in Operations \ ThrownOperations :
                /\ op1 # op2
                /\ CallNo(op1) > CallNo(bad) /\ CallNo(op2) > CallNo(bad)
                /\ ~Overtaken(op1) /\ ~Overtaken(op2)
                /\ EffectPresent(op1) /\ EffectPresent(op2)

\* ===================================================== the appliers alone
\* One call of one applier on any vault: the apply loop of a pass whose
\* plan holds a single operation.
Vaults ==
    UNION {[ps -> Notes] : ps \in SUBSET Paths}

RenameValues ==
    {v \in [from : {NoPath} \cup Paths, to : Paths, note : Notes] : v.from # v.to}

WriteValues == [filePath : Paths, note : Notes]

\* The plans with one operation; the key is that of the note's marker.
SinglePlans ==
    {[NoPlan EXCEPT !.renames = <<<<v.note.marker[2], v>>>>] : v \in RenameValues}
        \cup {[NoPlan EXCEPT !.updates = <<<<v.note.marker[2], v>>>>] : v \in WriteValues}
        \cup {[NoPlan EXCEPT !.creates = <<<<v.note.marker[2], v>>>>] : v \in WriteValues}
        \cup {[NoPlan EXCEPT !.deletes = <<<<1, p>>>>] : p \in Paths}

InitAppliers ==
    /\ version \in Versions
    /\ store = EmptySnapshot
    /\ statusFile = NoFile
    /\ vault \in Vaults
    /\ plan \in SinglePlans
    /\ pc = Position(plan, 1, 1).pc
    /\ idx = 1
    /\ status = EmptyStatus
    /\ updatedStatus = EmptyStatus
    /\ running = NotRunning
    /\ failed = FALSE
    /\ log = <<>>
    /\ vaultAtStart = vault
    /\ handed = EmptyStatus
    /\ lastPass = NoLastPass
    /\ passes = MaxPasses
    /\ api_key = "key"
    /\ syncResult = "pending"
    /\ cleared = FALSE
    /\ loaded = NotLoaded
    /\ second = NoSecond
    /\ now = 0
    /\ last_sync = NoDate
    /\ debounce_seconds = 0
    /\ libraries = NoLibraries

NextAppliers ==
    \/ Call
    \/ applyRename
    \/ applyUpdate
    \/ applyDelete
    \/ applyCreate

SpecAppliers == InitAppliers /\ [][NextAppliers]_vars

\* The single operation of the plan has returned or thrown.
Returned(type) == Applied /\ plan[type] # EmptyMap

\* C12: renameFile(from, to, content) with no file at `from` leaves the
\* vault as CREATE(to, content) would, overwriting a file at `to`;
\* otherwise the file is moved from `from` to `to`; and whenever it returns
\* without exception the file at `to` holds `content`.
C12_RenameApplier ==
    Returned("renames") =>
        LET k == plan.renames[1][1]
            v == plan.renames[1][2]
        IN  /\ v.from \notin DOMAIN vaultAtStart =>
                  Succeeded("renames", k) /\ vault = Put(vaultAtStart, v.to, v.note)
            /\ (v.from \in DOMAIN vaultAtStart /\ Succeeded("renames", k)) =>
                  v.from \notin DOMAIN vault /\ v.to \in DOMAIN vault
            /\ Succeeded("renames", k) =>
                  v.to \in DOMAIN vault /\ vault[v.to] = v.note

\* C13: whenever updateFile(path, content) or createFile(path, content)
\* returns without exception, the vault is the vault before the call with
\* a file at `path` whose content is `content`, whether or not a file was
\* at `path` before.
C13_UpdateCreateAppliers ==
    /\ Returned("updates") =>
          LET k == plan.updates[1][1]
              v == plan.updates[1][2]
          IN  Succeeded("updates", k) => vault = Put(vaultAtStart, v.filePath, v.note)
    /\ Returned("creates") =>
          LET k == plan.creates[1][1]
              v == plan.creates[1][2]
          IN  Succeeded("creates", k) => vault = Put(vaultAtStart, v.filePath, v.note)

\* C13 witness: updateFile has returned for a path that had no file, the
\* file is there with the content, and the other file of the vault is as
\* it was.
C13_Witness ==
    /\ Returned("updates")
    /\ LET v == plan.updates[1][2]
       IN  /\ v.filePath \notin DOMAIN vaultAtStart
           /\ vaultAtStart # EmptyVault
           /\ Succeeded("updates", plan.updates[1][1])
           /\ vault[v.filePath] = v.note

\* C14: deleteFile(path) on a path without file returns without error and
\* leaves the vault as it was; on a path with a file it removes that file
\* and no other.
C14_DeleteApplier ==
    Returned("deletes") =>
        LET k == plan.deletes[1][1]
            p == plan.deletes[1][2]
        IN  /\ Succeeded("deletes", k)
            /\ vault = IF p \in DOMAIN vaultAtStart THEN Remove(vaultAtStart, p)
                       ELSE vaultAtStart

\* C14 witness: deleteFile has returned for a path without file, in a
\* vault that holds another file, and the vault is as it was.
C14_Witness ==
    /\ Returned("deletes")
    /\ plan.deletes[1][2] \notin DOMAIN vaultAtStart
    /\ vaultAtStart # EmptyVault
    /\ Succeeded("deletes", plan.deletes[1][1])
    /\ vault = vaultAtStart

\* ============================================== the two loaders alone
\* readLibrary and readStatus called on whatever is found in place of
\* their files.
StatusEntries(kind, keys) ==
    {<<k, [filePath |-> p, hash |-> md5([marker |-> <<kind, k>>, body |-> b])]>> :
        k \in keys, p \in Paths, b \in Bodies}
        \cup {<<k, NoValue>> : k \in keys}
        \cup {<<NotAnEntry, NoValue>>}

JsonValues(kind, keys, maxLen) ==
    {JsonAbsent, JsonEmptyObject}
        \cup {JsonArray(s) : s \in UNION {[1..n -> StatusEntries(kind, keys)] : n \in 0..maxLen}}

\* A status file whose text is not JSON.
NotJson ==
    [present |-> TRUE, valid |-> FALSE, collections |-> JsonAbsent, items |-> JsonAbsent]

StatusFiles ==
    {NoFile, NotJson}
        \cup [present : {TRUE}, valid : {TRUE},
              collections : JsonValues("collections", CollectionKeys, MaxCollections),
              items : JsonValues("items", ItemKeys, MaxItems)]

InitLoad ==
    /\ version \in Versions
    /\ \/ store \in StoreFiles /\ statusFile = NoFile
       \/ store = EmptySnapshot /\ statusFile \in StatusFiles
    /\ vault = EmptyVault
    /\ pc = "idle"
    /\ status = EmptyStatus
    /\ plan = NoPlan
    /\ updatedStatus = EmptyStatus
    /\ idx = 0
    /\ running = NotRunning
    /\ failed = FALSE
    /\ log = <<>>
    /\ vaultAtStart = EmptyVault
    /\ handed = EmptyStatus
    /\ lastPass = NoLastPass
    /\ passes = MaxPasses
    /\ api_key = "key"
    /\ syncResult = "none"
    /\ cleared = FALSE
    /\ loaded = NotLoaded
    /\ second = NoSecond
    /\ now = 0
    /\ last_sync = NoDate
    /\ debounce_seconds = 0
    /\ libraries = NoLibraries

callReadLibrary ==
    /\ loaded = NotLoaded
    /\ LET data == readLibrary(version, store)
       IN  loaded' = [fn |-> "readLibrary", threw |-> data.threw,
                      collections |-> data.collections, items |-> data.items,
                      tree |-> data.tree]
    /\ UNCHANGED <<version, store, statusFile, vault, pc, status, plan,
                   updatedStatus, idx, running, failed, log, vaultAtStart, handed,
                   lastPass, passes, api_key, syncResult, cleared, second,
                   now, last_sync, debounce_seconds, libraries>>

callReadStatus ==
    /\ loaded = NotLoaded
    /\ LET st == readStatus(version, statusFile)
       IN  loaded' = [fn |-> "readStatus", threw |-> FALSE,
                      collections |-> st.collections, items |-> st.items,
                      tree |-> NoTree]
    /\ UNCHANGED <<version, store, statusFile, vault, pc, status, plan,
                   updatedStatus, idx, running, failed, log, vaultAtStart, handed,
                   lastPass, passes, api_key, syncResult, cleared, second,
                   now, last_sync, debounce_seconds, libraries>>

NextLoad ==
    \/ callReadLibrary
    \/ callReadStatus

SpecLoad == InitLoad /\ [][NextLoad]_vars

LoadedEmpty == loaded.collections = EmptyMap /\ loaded.items = EmptyMap

\* C17: readLibrary never throws because of the snapshot file, and returns
\* empty maps when the file is missing, unreadable, not JSON, or JSON
\* without the collections list or the items list.
C17_ReadLibraryTolerance ==
    loaded.fn = "readLibrary" =>
        /\ ~loaded.threw
        /\ (store.t # "json" \/ ~store.hasCollections \/ ~store.hasItems) => LoadedEmpty

\* An array of [key, {filePath, hash}] pairs.
PairList(json) ==
    /\ json.t = "array"
    /\ \A n \in 1..Len(json.elems) :
          json.elems[n][1] # NotAnEntry /\ json.elems[n][2] # NoValue

\* C18: readStatus never throws, and returns empty maps when the status
\* file is missing, is not JSON, or when its collections or its items is
\* not a list of [key, {filePath, hash}] pairs.
C18_ReadStatusNeverRaises ==
    loaded.fn = "readStatus" =>
        /\ ~loaded.threw
        /\ (\/ ~statusFile.present
            \/ ~statusFile.valid
            \/ ~PairList(statusFile.collections)
            \/ ~PairList(statusFile.items)) => LoadedEmpty

\* ------------------------------------------------ configuration failure
\* C16: in part_002, a pass started while the API key is blank is rejected
\* with the error of authenticate, and the step in which a pass is
\* rejected for the key or the login changes no file of the vault, does
\* not write the status and ends the pass.
C16_ConfigFailureIsFatal ==
    [][(version = "part_002" /\ pc = "syncWithZotero") =>
          /\ api_key = NoKey => syncResult' = "no key"
          /\ syncResult' \in {"no key", "login failed"} =>
                /\ vault' = vault
                /\ statusFile' = statusFile
                /\ store' = store
                /\ pc' = "idle"]_vars

\* C16 witness: after a pass that made files and wrote the status, a pass
\* has been rejected because the login failed; files and status are there.
C16_Witness ==
    /\ version = "part_002"
    /\ pc = "idle"
    /\ syncResult = "login failed"
    /\ vault # EmptyVault
    /\ statusFile.present
    /\ lastPass.done

\* ------------------------------------------------------ clearing the status
\* The records of the snapshot that have a file path, as <<kind, record>>.
PathRecords ==
    {<<kind, rec>> : kind \in {"collections"}, rec \in {x \in SnapshotRecords("collections") : x.path # NoPath}}
        \cup {<<kind, rec>> : kind \in {"items"}, rec \in {x \in SnapshotRecords("items") : x.path # NoPath}}

\* C19: the pass that follows a successful clearStatus plans exactly one
\* CREATE for every record with a file path and no RENAME, UPDATE or
\* DELETE; when its operations are applied and none failed, the file of
\* each such record holds the generated content.
C19_ClearForcesRebuild ==
    (Computed /\ cleared) =>
        /\ \A kr \in PathRecords : HasCreate(kr[1], kr[2])
        /\ Len(plan.creates) = Cardinality(PathRecords)
        /\ plan.renames = EmptyMap /\ plan.updates = EmptyMap /\ plan.deletes = EmptyMap
        /\ (Applied /\ ~failed) =>
              \A kr \in PathRecords :
                  /\ kr[2].path \in DOMAIN vault
                  /\ vault[kr[2].path] = generateNote(kr[1], kr[2])

\* ------------------------------------------------------- generator errors
\* The records of the snapshot for which a generator throws, and the
\* others, as <<kind, record>>.
ThrowingRecords ==
    {<<kind, rec>> : kind \in {"collections"}, rec \in {x \in SnapshotRecords("collections") : GeneratorThrows(x)}}
        \cup {<<kind, rec>> : kind \in {"items"}, rec \in {x \in SnapshotRecords("items") : GeneratorThrows(x)}}

\* C20: when a generator throws for one record of the snapshot, the
\* compute phase still ends with a plan: it holds no operation of that
\* record, the record's previous status entry is carried unchanged into
\* the new status, and every other record with a file path is in the new
\* status.
C20_GeneratorErrorIsolation ==
    [][(pc = "applyUpdates" /\ Cardinality(ThrowingRecords) = 1) =>
          /\ pc' \in {"renames", "updates", "deletes", "creates", "writeStatus"}
          /\ \A kr \in ThrowingRecords :
                /\ \A t \in {"renames", "updates", "creates"} :
                      \A e \in Entries(plan'[t]) : e[2].note.marker # <<kr[1], kr[2].key>>
                /\ MapHas(status'[kr[1]], kr[2].key) =>
                      /\ MapHas(updatedStatus'[kr[1]], kr[2].key)
                      /\ MapGet(updatedStatus'[kr[1]], kr[2].key)
                             = MapGet(status'[kr[1]], kr[2].key)
          /\ \A kr \in PathRecords : MapHas(updatedStatus'[kr[1]], kr[2].key)]_vars

\* ============================================== a second pass in flight
\* Nothing in sync, applyAllUpdates or applyUpdates looks whether a pass is
\* running.  The Apply button of the settings tab calls applyAllUpdates;
\* here it is clicked, with the templates as they are, while the pass
\* started by sync() is between readStatus and writeStatus.
ApplyPhases == {"renames", "updates", "deletes", "creates"}

\* The applier of an operation of the given type.
applyOperation(vlt, type, fn, value) ==
    IF type = "renames" THEN renameFile(vlt, fn, value.from, value.to, value.note)
    ELSE IF type = "updates" THEN updateFile(vlt, fn, value.filePath, value.note)
    ELSE IF type = "deletes" THEN deleteFile(vlt, fn, value)
    ELSE createFile(vlt, fn, value.filePath, value.note)

\* Apply button -> applyAllUpdates -> applyUpdates, up to the first file
\* operation.
applyButton ==
    /\ second = NoSecond
    /\ pc \in ApplyPhases \cup {"writeStatus"}
    /\ passes < MaxPasses
    /\ passes' = passes + 1
    /\ LET data == readLibrary(version, store)
           st == readStatus(version, statusFile)
           c == computePlan(version, data, st)
           pl == [renames |-> c.renames, updates |-> c.updates,
                  deletes |-> c.deletes, creates |-> c.creates]
           pos == Position(pl, 1, 1)
       IN  /\ ~data.threw /\ ~c.threw
           /\ second' = [pc |-> pos.pc, plan |-> pl, idx |-> pos.idx,
                         running |-> NotRunning, updatedStatus |-> c.updatedStatus,
                         disabled |-> TRUE, finished |-> FALSE]
    /\ UNCHANGED <<version, store, statusFile, vault, pc, status, plan,
                   updatedStatus, idx, running, failed, log, vaultAtStart, handed,
                   lastPass, api_key, syncResult, cleared, loaded,
                   now, last_sync, debounce_seconds, libraries>>

\* The second pass calls the applier of its next operation.
secondCall ==
    /\ second.pc \in ApplyPhases
    /\ second.running = NotRunning
    /\ LET e == second.plan[second.pc][second.idx]
       IN  second' = [second EXCEPT !.running =
                         [type |-> second.pc, key |-> e[1],
                          fn |-> aquireFile(vault, LookupPath(second.pc, e[2]))]]
    /\ UNCHANGED <<version, store, statusFile, vault, pc, status, plan,
                   updatedStatus, idx, running, failed, log, vaultAtStart, handed,
                   lastPass, passes, api_key, syncResult, cleared, loaded,
                   now, last_sync, debounce_seconds, libraries>>

\* The applier of the second pass returns or throws.
secondReturn ==
    /\ second.pc \in ApplyPhases
    /\ second.running # NotRunning
    /\ LET value == second.plan[second.pc][second.idx][2]
           result == applyOperation(vault, second.pc, second.running.fn, value)
           pos == Position(second.plan, PhaseNo(second.pc), second.idx + 1)
       IN  /\ vault' = result.vault
           /\ second' = [second EXCEPT !.running = NotRunning,
                                       !.pc = pos.pc, !.idx = pos.idx]
    /\ UNCHANGED <<version, store, statusFile, pc, status, plan,
                   updatedStatus, idx, running, failed, log, vaultAtStart, handed,
                   lastPass, passes, api_key, syncResult, cleared, loaded,
                   now, last_sync, debounce_seconds, libraries>>

\* The second pass writes its status and is over: applyAllUpdates resolves
\* and the handler enables the button again.
secondWriteStatus ==
    /\ second.pc = "writeStatus"
    /\ statusFile' = writeStatus(version, second.updatedStatus)
    /\ handed' = second.updatedStatus
    /\ second' = [NoSecond EXCEPT !.finished = TRUE]
    /\ UNCHANGED <<version, store, vault, pc, status, plan,
                   updatedStatus, idx, running, failed, log, vaultAtStart,
                   lastPass, passes, api_key, syncResult, cleared, loaded,
                   now, last_sync, debounce_seconds, libraries>>

NextOverlap ==
    \/ Next
    \/ applyButton
    \/ secondCall
    \/ secondReturn
    \/ secondWriteStatus

SpecOverlap == Init /\ [][NextOverlap]_vars

\* A pass is between reading its status and writing it.
InFlight == pc \in ApplyPhases \cup {"writeStatus"}

SecondInFlight == second.pc \in ApplyPhases \cup {"writeStatus"}

\* C15: at most one pass is in flight at any time: while a pass is between
\* reading its status and writing its status no other pass is.
C15_SinglePassInFlight == ~(InFlight /\ SecondInFlight)

\* ============================================== the tree of readLibrary
\* readLibrary called on snapshots whose records name parents: the lists
\* are in any order, a parent reference is absent, the key of a record of
\* the list (the record itself included) or a key that is not in the list.
TreeKeys == 1..MaxTreeNodes

ParentRefs == 1..(MaxTreeNodes + 1)

TreeRecords(parents, memberships) ==
    [key : TreeKeys, path : {NoPath}, body : {1}, throws : {FALSE},
     parent : parents, collections : memberships]

\* Lists of records with distinct keys.
TreeLists(parents, memberships) ==
    {s \in UNION {[1..n -> TreeRecords(parents, memberships)] : n \in 0..MaxTreeNodes} :
        \A a, b \in 1..Len(s) : a # b => s[a].key # s[b].key}

\* Either a tree of collections and one item filed under at most one
\* collection key, or a tree of items.
TreeSnapshots ==
    [t : {"json"}, hasCollections : {TRUE}, hasItems : {TRUE},
     collections : TreeLists({NoParent} \cup ParentRefs, {<<>>}),
     items : {<<i>> : i \in {x \in TreeRecords({NoParent},
                                                {<<>>} \cup {<<c>> : c \in ParentRefs}) :
                                 x.key = 1}}]
        \cup [t : {"json"}, hasCollections : {TRUE}, hasItems : {TRUE},
              collections : {<<>>},
              items : TreeLists({NoParent} \cup ParentRefs, {<<>>})]

InitTree ==
    /\ version \in Versions
    /\ store \in TreeSnapshots
    /\ statusFile = NoFile
    /\ vault = EmptyVault
    /\ pc = "idle"
    /\ status = EmptyStatus
    /\ plan = NoPlan
    /\ updatedStatus = EmptyStatus
    /\ idx = 0
    /\ running = NotRunning
    /\ failed = FALSE
    /\ log = <<>>
    /\ vaultAtStart = EmptyVault
    /\ handed = EmptyStatus
    /\ lastPass = NoLastPass
    /\ passes = MaxPasses
    /\ api_key = "key"
    /\ syncResult = "none"
    /\ cleared = FALSE
    /\ loaded = NotLoaded
    /\ second = NoSecond
    /\ now = 0
    /\ last_sync = NoDate
    /\ debounce_seconds = 0
    /\ libraries = NoLibraries

NextTree == callReadLibrary

SpecTree == InitTree /\ [][NextTree]_vars

\* readLibrary has returned its maps.
TreeBuilt == loaded.fn = "readLibrary" /\ ~loaded.threw

Resolves(kind, rec) ==
    rec.parent # NoParent /\ rec.parent \in SnapshotKeys(kind)

IsChildOf(kind, k, parent) ==
    \E n \in 1..Len(loaded.tree[kind][parent]) : loaded.tree[kind][parent][n] = k

\* C21: after readLibrary, every item whose parentItem is the key of an
\* item of the snapshot is not in the items map returned and is in the
\* children of that parent, at any depth of nesting.
C21_ItemHierarchy ==
    TreeBuilt =>
        \A item \in SnapshotRecords("items") :
            Resolves("items", item) =>
                /\ ~MapHas(loaded.items, item.key)
                /\ IsChildOf("items", item.key, item.parent)

\* ---------------------------------------------------- the ancestor walk
\* C22: in part_002, findSuperCollections returns a chain for every
\* collection key, also when the parentCollection references form a cycle
\* (a collection that is its own parent included), and readLibrary does
\* not throw because of the walk.
C22_AncestorWalkTerminates ==
    (version = "part_002" /\ loaded.fn = "readLibrary") =>
        /\ ~loaded.threw
        /\ \A k \in ParentRefs :
              ~findSuperCollections(MapOfRecords(store.collections), k, 1).threw

\* The sequences of distinct collection keys.
KeyChains ==
    {s \in UNION {[1..n -> TreeKeys] : n \in 1..MaxTreeNodes} :
        \A a, b \in 1..Len(s) : a # b => s[a] # s[b]}

\* s starts with k, each next key is the parentCollection of the one
\* before it, every key is in the map, and the last has no parent.
IsPathToRoot(map, s, k) ==
    /\ s[1] = k
    /\ \A n \in 1..Len(s) : MapHas(map, s[n])
    /\ \A n \in 1..(Len(s) - 1) : MapGet(map, s[n]).parent = s[n + 1]
    /\ MapGet(map, s[Len(s)]).parent = NoParent

\* C23: in part_002, for a collection whose parent references resolve up
\* to a root, findSuperCollections returns the collection's key followed
\* by the key of each successive parent up to the root, each once; for a
\* key that is not in the snapshot it returns the empty chain.
C23_AncestorChainOrder ==
    (version = "part_002" /\ TreeBuilt) =>
        /\ \A k \in TreeKeys : \A s \in KeyChains :
              IsPathToRoot(loaded.collections, s, k) =>
                  findSuperCollections(loaded.collections, k, 1)
                      = [threw |-> FALSE, chain |-> s]
        /\ \A k \in ParentRefs :
              ~MapHas(loaded.collections, k) =>
                  findSuperCollections(loaded.collections, k, 1)
                      = [threw |-> FALSE, chain |-> <<>>]
        /\ \A n \in 1..Len(store.items) : \A s \in KeyChains :
              (/\ store.items[n].collections # <<>>
               /\ IsPathToRoot(loaded.collections, s, store.items[n].collections[1])) =>
                  loaded.tree.super_collections[store.items[n].key] = s

\* C23 witness: A is a root, B a child of A, C a child of B; the item filed
\* under C has super_collections [C, B, A].
C23_Witness ==
    /\ version = "part_002"
    /\ TreeBuilt
    /\ IsPathToRoot(loaded.collections, <<3, 2, 1>>, 3)
    /\ Len(store.items) = 1
    /\ store.items[1].collections = <<3>>
    /\ loaded.tree.super_collections[1] = <<3, 2, 1>>

\* ------------------------------------------------- the shape of the tree
\* The keys of the two maps, and for every record the set of the keys in
\* its children.
RootKeys(r) == [collections |-> MapKeys(r.collections), items |-> MapKeys(r.items)]

ChildSets(r) ==
    [kind \in Kinds |->
        [k \in DOMAIN r.tree[kind] |->
            {r.tree[kind][k][n] : n \in 1..Len(r.tree[kind][k])}]]

Permuted(list, f) == [n \in 1..Len(list) |-> list[f[n]]]

\* C26: readLibrary returns the same root key sets and the same children
\* sets for every permutation of the collections list and of the items
\* list of the snapshot.
C26_RecordOrderIrrelevant ==
    loaded.fn = "readLibrary" =>
        \A fc \in Permutations(1..Len(store.collections)) :
            \A fi \in Permutations(1..Len(store.items)) :
                LET r == readLibrary(version,
                             [store EXCEPT !.collections = Permuted(store.collections, fc),
                                           !.items = Permuted(store.items, fi)])
                IN  /\ r.threw = loaded.threw
                    /\ RootKeys(r) = RootKeys(loaded)
                    /\ ChildSets(r) = ChildSets(loaded)

\* The number of children lists of the kind that hold k, each place counted.
RECURSIVE Occurrences(_, _)
Occurrences(children, k) ==
    IF children = <<>> THEN 0
    ELSE (IF children[1] = k THEN 1 ELSE 0) + Occurrences(Tail(children), k)

RECURSIVE SumOver(_, _, _)
SumOver(tree, keys, k) ==
    IF keys = {} THEN 0
    ELSE LET p == CHOOSE q \in keys : TRUE
         IN  Occurrences(tree[p], k) + SumOver(tree, keys \ {p}, k)

\* C27: after readLibrary every collection of the snapshot is in the
\* collections map; a collection whose parentCollection resolves is once
\* in the children of that parent and in no other children; a collection
\* with absent or unresolvable parent is in no children.
C27_CollectionTree ==
    TreeBuilt =>
        \A c \in SnapshotRecords("collections") :
            /\ MapHas(loaded.collections, c.key)
            /\ MapGet(loaded.collections, c.key) = c
            /\ IF Resolves("collections", c)
               THEN /\ Occurrences(loaded.tree.collections[c.parent], c.key) = 1
                    /\ SumOver(loaded.tree.collections, DOMAIN loaded.tree.collections, c.key) = 1
               ELSE SumOver(loaded.tree.collections, DOMAIN loaded.tree.collections, c.key) = 0

\* C27 witness: A is a root, B a child of A and C a child of B, listed
\* children first; all three are in the map, B is the one child of A, C the
\* one child of B.
C27_Witness ==
    /\ TreeBuilt
    /\ Len(store.collections) = 3
    /\ store.collections[1].key = 3
    /\ IsPathToRoot(loaded.collections, <<3, 2, 1>>, 3)
    /\ MapKeys(loaded.collections) = {1, 2, 3}
    /\ loaded.tree.collections[1] = <<2>>
    /\ loaded.tree.collections[2] = <<3>>
    /\ loaded.tree.collections[3] = <<>>

\* A record whose parent reference names a key that is not in the list.
Dangling(kind, rec) == rec.parent # NoParent /\ rec.parent \notin SnapshotKeys(kind)

\* The list with the dangling parent references taken out.
Rootified(kind) ==
    [n \in 1..Len(store[kind]) |->
        IF Dangling(kind, store[kind][n])
        THEN [store[kind][n] EXCEPT !.parent = NoParent]
        ELSE store[kind][n]]

\* C28: a collection or item whose parent reference names a key that is
\* not in the snapshot is in the map returned and in no children; it does
\* not make readLibrary throw; and every record is nested as it is when
\* the dangling references are absent.
C28_DanglingParentsAreRoots ==
    loaded.fn = "readLibrary" =>
        LET r == readLibrary(version,
                     [store EXCEPT !.collections = Rootified("collections"),
                                   !.items = Rootified("items")])
        IN  /\ loaded.threw => r.threw
            /\ TreeBuilt =>
                  /\ \A kind \in Kinds : \A rec \in SnapshotRecords(kind) :
                        Dangling(kind, rec) =>
                            /\ MapHas(loaded[kind], rec.key)
                            /\ \A p \in DOMAIN loaded.tree[kind] :
                                  ~IsChildOf(kind, rec.key, p)
                  /\ RootKeys(r) = RootKeys(loaded)
                  /\ r.tree.collections = loaded.tree.collections
                  /\ r.tree.items = loaded.tree.items

\* C28 witness: the first item of the list names a parent that is not in
\* the snapshot and stays in the map; the item after it is no root and is
\* the child of the third.
C28_Witness ==
    /\ TreeBuilt
    /\ Len(store.items) = 3
    /\ Dangling("items", store.items[1])
    /\ MapHas(loaded.items, store.items[1].key)
    /\ store.items[2].parent = store.items[3].key
    /\ store.items[3].parent = NoParent
    /\ ~MapHas(loaded.items, store.items[2].key)
    /\ loaded.tree.items[store.items[3].key] = <<store.items[2].key>>

\* ------------------------------------------------------------ the hash
\* The notes the plan hands to the appliers for the record (kind, k).
NotesPassed(kind, k) ==
    {e[2].note : e \in {x \in Entries(plan.renames) \cup Entries(plan.updates)
                                \cup Entries(plan.creates) :
                            x[2].note.marker = <<kind, k>>}}

\* C24: every record with a file path has an entry in the new status
\* whose hash is the digest of the string the plan passes as content to
\* the record's CREATE, UPDATE or RENAME and of no other string; that
\* string holds the record's marker; and a pass over the snapshot of the
\* completed pass before it stores the hash that pass stored.
C24_HashCoversBytesWritten ==
    Computed =>
        \A kr \in PathRecords :
            LET kind == kr[1]
                k == kr[2].key
            IN  /\ MapHas(updatedStatus[kind], k)
                /\ \A note \in NotesPassed(kind, k) :
                      /\ MapGet(updatedStatus[kind], k).hash = md5(note)
                      /\ \A n \in Notes \ {note} :
                            MapGet(updatedStatus[kind], k).hash # md5(n)
                      /\ note = generateNote(kind, kr[2])
                      /\ note.marker = getMarker(kind, kr[2])
                /\ (lastPass.done /\ lastPass.same /\ MapHas(handed[kind], k)) =>
                      MapGet(updatedStatus[kind], k).hash = MapGet(handed[kind], k).hash

\* C24 witness: a pass over the snapshot of the pass before it plans an
\* operation with content for a record, and the hash it stores for the
\* record is that of the content and the one the pass before stored.
C24_Witness ==
    /\ Computed
    /\ lastPass.done /\ lastPass.same
    /\ \E kr \in PathRecords :
          /\ NotesPassed(kr[1], kr[2].key) # {}
          /\ MapHas(handed[kr[1]], kr[2].key)
          /\ MapGet(handed[kr[1]], kr[2].key).hash = md5(generateNote(kr[1], kr[2]))
          /\ MapGet(updatedStatus[kr[1]], kr[2].key).hash = md5(generateNote(kr[1], kr[2]))

\* ============================================ writeStatus that throws
\* fs.promises.writeFile fails; writeStatus throws "Unable to write library
\* status", which nothing catches: sync() is rejected.  The passes of this
\* specification follow a first pass that has completed, over libraries of
\* items whose templates do not throw.
SmallSnapshots ==
    {s \in Snapshots :
        /\ s.collections = <<>>
        /\ \A n \in 1..Len(s.items) : ~s.items[n].throws}

\* One apply loop on its own: each applier is called with the vault the
\* one before it left.
RECURSIVE applyEntries(_, _, _)
applyEntries(vlt, type, entries) ==
    IF entries = <<>> THEN vlt
    ELSE LET value == entries[1][2]
             fn == aquireFile(vlt, LookupPath(type, value))
         IN  applyEntries(applyOperation(vlt, type, fn, value).vault, type, Tail(entries))

\* The four apply loops.
applyPlan(vlt, pl) ==
    LET renamed == applyEntries(vlt, "renames", pl.renames)
        updated == applyEntries(renamed, "updates", pl.updates)
        deleted == applyEntries(updated, "deletes", pl.deletes)
    IN  applyEntries(deleted, "creates", pl.creates)

\* The state after the first pass of a new installation, over one of the
\* snapshots.
InitWriteFailure ==
    /\ version \in Versions
    /\ store \in SmallSnapshots
    /\ LET c == computePlan(version, readLibrary(version, store), EmptyStatus)
       IN  /\ vault = applyPlan(EmptyVault, c)
           /\ statusFile = writeStatus(version, c.updatedStatus)
           /\ handed = c.updatedStatus
    /\ pc = "idle"
    /\ status = EmptyStatus
    /\ plan = NoPlan
    /\ updatedStatus = EmptyStatus
    /\ idx = 0
    /\ running = NotRunning
    /\ failed = FALSE
    /\ log = <<>>
    /\ vaultAtStart = EmptyVault
    /\ lastPass = [done |-> TRUE, ok |-> TRUE, same |-> FALSE, writeFailed |-> FALSE,
                   unreadable |-> FALSE]
    /\ passes = 0
    /\ api_key = "key"
    /\ syncResult = "resolved"
    /\ cleared = FALSE
    /\ loaded = NotLoaded
    /\ second = NoSecond
    /\ now = 0
    /\ last_sync = 0
    /\ debounce_seconds = 0
    /\ libraries = NoLibraries

\* What the text of the status file is after a writeFile that failed: the
\* file as it was, or a file cut short, which is not JSON.
AfterFailedWrite(file) == {file, NotJson}

\* await this.writeStatus(library.prefix, updatedStatus) throws.
failWriteStatus ==
    /\ pc = "writeStatus"
    /\ statusFile' \in AfterFailedWrite(statusFile)
    /\ handed' = updatedStatus
    /\ lastPass' = [done |-> FALSE, ok |-> FALSE, same |-> FALSE, writeFailed |-> TRUE,
                    unreadable |-> FALSE,
                    status |-> status, plan |-> plan, vault |-> vault]
    /\ pc' = "idle"
    /\ syncResult' = "write failed"
    /\ status' = EmptyStatus
    /\ plan' = NoPlan
    /\ updatedStatus' = EmptyStatus
    /\ failed' = FALSE
    /\ log' = <<>>
    /\ vaultAtStart' = EmptyVault
    /\ UNCHANGED <<version, store, vault, idx, running, passes,
                   api_key, cleared, loaded, second,
                   now, last_sync, debounce_seconds, libraries>>

NextWriteFailure ==
    \/ sync
    \/ syncWithZoteroTo(SmallSnapshots)
    \/ applyUpdates
    \/ Call
    \/ applyRename
    \/ applyUpdate
    \/ applyDelete
    \/ applyCreate
    \/ applyWriteStatus
    \/ failWriteStatus
    \/ setLastSync

SpecWriteFailure == InitWriteFailure /\ [][NextWriteFailure]_vars

\* The pass runs over the snapshot of the pass before it, whose writeStatus
\* threw.
AfterWriteFailure == lastPass.writeFailed /\ lastPass.same

\* C25: in part_002, the pass that follows a pass whose writeStatus threw,
\* over the same snapshot, reads the status the failed pass had read,
\* computes the plan the failed pass computed, and when it has applied the
\* plan the vault is as the failed pass left it.
C25_StatusWriteFailureHarmless ==
    (version = "part_002" /\ Computed /\ AfterWriteFailure) =>
        /\ status = lastPass.status
        /\ plan = lastPass.plan
        /\ Applied => vault = lastPass.vault

\* ------------------------------------------------- the status committed
\* The entries the records of a kind with a file path are to have in the
\* status: key and {generated path, generated hash}.
ExpectedEntries(kind) ==
    {<<rec.key, [filePath |-> rec.path, hash |-> md5(generateNote(kind, rec))]>> :
        rec \in {x \in SnapshotRecords(kind) : x.path # NoPath}}

\* C29: the status file written at the end of a pass holds, for each kind,
\* the entry {generated path, generated hash} of every record with a file
\* path and no other entry, whether or not the operations of the pass
\* succeeded.
C29_StatusCommittedUnconditionally ==
    Written =>
        \A kind \in Kinds :
            Entries(statusFile[kind].elems) = ExpectedEntries(kind)

\* --------------------------------------------------- one plan per kind
\* What the status read at the start of the pass asks for the record: a
\* create when its key has no entry in the status of its kind, a rename
\* when the entry has another path, an update when it has another hash.
Needs(type, kind, rec) ==
    /\ rec.path # NoPath
    /\ IF type = "creates" THEN ~MapHas(status[kind], rec.key)
       ELSE /\ MapHas(status[kind], rec.key)
            /\ IF type = "renames"
               THEN MapGet(status[kind], rec.key).filePath # rec.path
               ELSE MapGet(status[kind], rec.key).hash # md5(generateNote(kind, rec))

\* The keys that a collection and an item of the snapshot share.
SharedKeys == SnapshotKeys("collections") \cap SnapshotKeys("items")

\* C30: when a collection and an item of the library have the same key,
\* the plan holds for each of them every operation its own status asks
\* for, with its own content, and the new status of each kind holds the
\* entry of its record.
C30_PerKindIndependence ==
    Computed =>
        \A kind \in Kinds : \A rec \in SnapshotRecords(kind) :
            rec.key \in SharedKeys =>
                /\ \A type \in {"renames", "updates", "creates"} :
                      Needs(type, kind, rec) => HasOp(type, kind, rec.key)
                /\ rec.path # NoPath =>
                      /\ MapHas(updatedStatus[kind], rec.key)
                      /\ MapGet(updatedStatus[kind], rec.key)
                             = [filePath |-> rec.path, hash |-> md5(generateNote(kind, rec))]

\* ------------------------------------------------- two records, one path
\* The record has a file path and no entry in the status read at the start
\* of the pass.
NewRecord(kr) == kr[2].path # NoPath /\ ~MapHas(status[kr[1]], kr[2].key)

\* The place in the create loop of the last create of the path.
LastCreateOf(path) ==
    CHOOSE n \in 1..Len(plan.creates) :
        /\ plan.creates[n][2].filePath = path
        /\ \A m \in 1..Len(plan.creates) :
              plan.creates[m][2].filePath = path => m <= n

\* C31: when two records without previous status generate the same path
\* in one pass, the plan holds the create of each, no applier of the pass
\* throws for them, the file at the path holds the content of the create
\* applied last, and both keys have a status entry with that path.
C31_SamePathLastWriteWins ==
    Applied =>
        \A kr1, kr2 \in PathRecords :
            (kr1 # kr2 /\ kr1[2].path = kr2[2].path /\ NewRecord(kr1) /\ NewRecord(kr2)) =>
                /\ HasCreate(kr1[1], kr1[2]) /\ HasCreate(kr2[1], kr2[2])
                /\ ~Thrown("creates", kr1[2].key) /\ ~Thrown("creates", kr2[2].key)
                /\ kr1[2].path \in DOMAIN vault
                /\ vault[kr1[2].path] = plan.creates[LastCreateOf(kr1[2].path)][2].note
                /\ MapGet(updatedStatus[kr1[1]], kr1[2].key).filePath = kr1[2].path
                /\ MapGet(updatedStatus[kr2[1]], kr2[2].key).filePath = kr1[2].path

\* ------------------------------------------------------------- cooldown
\* Snapshots of at most one item, whose generators may throw.
OneItemSnapshots == {s \in Snapshots : s.collections = <<>> /\ Len(s.items) <= 1}

\* A second goes by.
tick ==
    /\ now < MaxTime
    /\ now' = now + 1
    /\ UNCHANGED <<version, store, statusFile, vault, pc, status, plan,
                   updatedStatus, idx, running, failed, log, vaultAtStart, handed,
                   lastPass, passes, api_key, syncResult, cleared, loaded, second,
                   last_sync, debounce_seconds, libraries>>

NextCooldown ==
    \/ tick
    \/ sync
    \/ \E d \in 1..MaxDebounce : syncCall(d)
    \/ syncWithZoteroTo(OneItemSnapshots)
    \/ applyUpdates
    \/ Call
    \/ applyRename
    \/ applyUpdate
    \/ applyDelete
    \/ applyCreate
    \/ applyWriteStatus
    \/ failWriteStatus
    \/ setLastSync

SpecCooldown == Init /\ [][NextCooldown]_vars

\* C32: a call sync(d) with d > 0, made less than d seconds after the last
\* pass completed, returns false and leaves the snapshot, the vault, the
\* status file and last_sync as they are, and no pass is started; a call
\* with no cooldown starts a pass however recently the last one completed.
C32_Cooldown ==
    [][passes' = passes + 1 =>
        /\ (/\ debounce_seconds' > 0
            /\ last_sync # NoDate
            /\ now - last_sync < debounce_seconds')
              => /\ syncResult' = "false"
                 /\ pc' = "idle"
                 /\ store' = store
                 /\ vault' = vault
                 /\ statusFile' = statusFile
                 /\ last_sync' = last_sync
        /\ debounce_seconds' = 0 => pc' = "syncWithZotero"]_vars

\* A call within the cooldown has returned, after a pass that left files.
C32_Witness ==
    /\ syncResult = "false"
    /\ debounce_seconds > 0
    /\ last_sync # NoDate
    /\ now - last_sync < debounce_seconds
    /\ vault # EmptyVault

\* A call with no cooldown has started a pass in the second the last one
\* completed.
C32_ManualStarts ==
    /\ pc = "syncWithZotero"
    /\ passes = 2
    /\ last_sync = now

C33_Completed ==
    /\ pc = "last_sync"
    /\ last_sync # NoDate
    /\ now > last_sync
    /\ Len(log) > 2

\* --------------------------------------------------------- Apply button
\* The onClick handler of the Apply button, clicked while no pass runs,
\* up to the first file operation: the button is disabled, saveSettings
\* is awaited (saved: it resolves) and applyAllUpdates is called.  What
\* saveSettings, readLibrary or a generator throws ends the handler.
applyClick ==
    /\ pc = "idle"
    /\ second.pc = "idle"
    /\ ~second.disabled
    /\ passes < MaxPasses
    /\ passes' = passes + 1
    /\ \E saved \in BOOLEAN :
          LET data == readLibrary(version, store)
              st == readStatus(version, statusFile)
              c == computePlan(version, data, st)
              pl == [renames |-> c.renames, updates |-> c.updates,
                     deletes |-> c.deletes, creates |-> c.creates]
              pos == Position(pl, 1, 1)
          IN  IF ~saved \/ data.threw \/ c.threw
              THEN second' = [NoSecond EXCEPT !.disabled = TRUE]
              ELSE second' = [pc |-> pos.pc, plan |-> pl, idx |-> pos.idx,
                              running |-> NotRunning,
                              updatedStatus |-> c.updatedStatus,
                              disabled |-> TRUE, finished |-> FALSE]
    /\ UNCHANGED <<version, store, statusFile, vault, pc, status, plan,
                   updatedStatus, idx, running, failed, log, vaultAtStart, handed,
                   lastPass, api_key, syncResult, cleared, loaded,
                   now, last_sync, debounce_seconds, libraries>>

\* writeStatus throws in the applyAllUpdates of the button.
secondFailWriteStatus ==
    /\ second.pc = "writeStatus"
    /\ statusFile' \in AfterFailedWrite(statusFile)
    /\ handed' = second.updatedStatus
    /\ second' = [NoSecond EXCEPT !.disabled = TRUE]
    /\ UNCHANGED <<version, store, vault, pc, status, plan,
                   updatedStatus, idx, running, failed, log, vaultAtStart,
                   lastPass, passes, api_key, syncResult, cleared, loaded,
                   now, last_sync, debounce_seconds, libraries>>

NextApply ==
    \/ sync
    \/ /\ second.pc = "idle"
       /\ \/ syncWithZoteroTo(OneItemSnapshots)
          \/ applyUpdates
          \/ Call
          \/ applyRename
          \/ applyUpdate
          \/ applyDelete
          \/ applyCreate
          \/ applyWriteStatus
          \/ failWriteStatus
          \/ setLastSync
    \/ applyClick
    \/ secondCall
    \/ secondReturn
    \/ secondWriteStatus
    \/ secondFailWriteStatus

SpecApply == Init /\ [][NextApply]_vars

\* C34: the Apply button is disabled while its applyAllUpdates runs and is
\* enabled when the handler is over, however it ended.
C34_ApplyButtonGuard ==
    /\ SecondInFlight => second.disabled
    /\ second.pc = "idle" => ~second.disabled

\* C35: whatever happens during writeStatus, the status file is afterwards
\* either the file as it was or the complete new status, never a file cut
\* short.
C35_AtomicStatusSave ==
    [][pc = "writeStatus" =>
          statusFile' \in {statusFile, writeStatus(version, updatedStatus)}]_vars

\* ------------------------------------------------- unreadable snapshot
\* No snapshot file, or one that is not JSON.
UnreadableFiles ==
    [t : {"missing", "notJSON"}, hasCollections : {FALSE}, hasItems : {FALSE},
     collections : {<<>>}, items : {<<>>}]

NextUnreadable ==
    \/ sync
    \/ syncWithZoteroTo(SmallSnapshots \cup UnreadableFiles)
    \/ applyUpdates
    \/ Call
    \/ applyRename
    \/ applyUpdate
    \/ applyDelete
    \/ applyCreate
    \/ applyWriteStatus
    \/ setLastSync

SpecUnreadable == InitWriteFailure /\ [][NextUnreadable]_vars

\* The pass follows one that found no readable snapshot, and has a
\* readable one.
AfterUnreadable == lastPass.done /\ lastPass.unreadable /\ store.t = "json"

\* C36: in part_002 a pass that finds no readable snapshot plans no create,
\* rename or update; and when the pass after it, over a readable snapshot,
\* has written its status, every record with a path has its file with the
\* generated content and every file of the vault is the file of a record
\* of that snapshot.
C36_RebuildAfterUnreadable ==
    version = "part_002" =>
        /\ (Computed /\ store.t # "json")
              => plan.renames = <<>> /\ plan.updates = <<>> /\ plan.creates = <<>>
        /\ (Written /\ AfterUnreadable)
              => /\ \A kr \in PathRecords :
                       /\ kr[2].path \in DOMAIN vault
                       /\ vault[kr[2].path] = generateNote(kr[1], kr[2])
                 /\ \A p \in DOMAIN vault : \E kr \in PathRecords : kr[2].path = p

\* No file operation has thrown in any pass so far.
NothingThrown ==
    /\ ~failed
    /\ \/ passes = 1
       \/ lastPass.done /\ lastPass.ok

\* C37: in part_002, when a pass has written its status and no file
\* operation of any pass has thrown, every key of the persisted status has
\* a file at its recorded path, and the digest of the file's content is the
\* recorded hash.
C37_StatusMatchesVault ==
    (version = "part_002" /\ Written /\ NothingThrown) =>
        \A kind \in Kinds :
            \A e \in Entries(readStatus(version, statusFile)[kind]) :
                /\ e[2].filePath \in DOMAIN vault
                /\ md5(vault[e[2].filePath]) = e[2].hash

\* The paths the persisted status records, for any key of either kind.
RecordedPaths ==
    {e[2].filePath : e \in Entries(readStatus(version, statusFile).collections)
                            \cup Entries(readStatus(version, statusFile).items)}

\* C38: in part_002, when a pass has written its status, every file of the
\* vault (each was created or renamed to by a pass) is at a path that the
\* persisted status records for some key.
C38_NoOrphanFiles ==
    (version = "part_002" /\ Written /\ ~cleared) =>
        \A p \in DOMAIN vault : p \in RecordedPaths

\* Passes after a first one, with an applyAllUpdates of the Apply button
\* started while a pass is in flight.
NextOverlapAfter ==
    \/ sync
    \/ syncWithZoteroTo(SmallSnapshots)
    \/ applyUpdates
    \/ Call
    \/ applyRename
    \/ applyUpdate
    \/ applyDelete
    \/ applyCreate
    \/ applyWriteStatus
    \/ setLastSync
    \/ applyButton
    \/ secondCall
    \/ secondReturn
    \/ secondWriteStatus

SpecOverlapAfter == InitWriteFailure /\ [][NextOverlapAfter]_vars

\* What running the two passes one after the other leaves: the first
\* applies its plan to the vault it started with and writes its status, the
\* second reads that status and the same snapshot.  (Both passes are over
\* the same snapshot, so either order gives this.)
SerialOutcome ==
    LET first == applyPlan(vaultAtStart, plan)
        written == writeStatus(version, updatedStatus)
        c == computePlan(version, readLibrary(version, store),
                         readStatus(version, written))
    IN  [vault |-> applyPlan(first, c),
         statusFile |-> writeStatus(version, c.updatedStatus)]

\* C39: in part_002, when a pass and an applyAllUpdates that was started
\* while the pass was in flight are both over, the vault and the status file
\* are what the two leave when they run one after the other.
C39_OverlapSerializable ==
    (version = "part_002" /\ Written /\ second.finished) =>
        /\ vault = SerialOutcome.vault
        /\ statusFile = SerialOutcome.statusFile

\* ----------------------------------------------------------- clearCache
\* The libraries of the client, in the order of Object.values: for each
\* whether its status file is there.
LibraryFiles == UNION {[1..n -> BOOLEAN] : n \in 1..MaxLibraries}

InitClearCache ==
    /\ version \in Versions
    /\ store = EmptySnapshot
    /\ statusFile = NoFile
    /\ vault = EmptyVault
    /\ pc = "idle"
    /\ status = EmptyStatus
    /\ plan = NoPlan
    /\ updatedStatus = EmptyStatus
    /\ idx = 0
    /\ running = NotRunning
    /\ failed = FALSE
    /\ log = <<>>
    /\ vaultAtStart = EmptyVault
    /\ handed = EmptyStatus
    /\ lastPass = NoLastPass
    /\ passes = 0
    /\ api_key = "key"
    /\ syncResult = "none"
    /\ cleared = FALSE
    /\ loaded = NotLoaded
    /\ second = NoSecond
    /\ now = 0
    /\ last_sync = NoDate
    /\ debounce_seconds = 0
    /\ libraries \in {[files |-> f, idx |-> 0, result |-> "none"] : f \in LibraryFiles}

\* clearCache() is called: the loop is entered.
clearCache ==
    /\ libraries.result = "none"
    /\ libraries' = [libraries EXCEPT !.idx = 1, !.result = "running"]
    /\ UNCHANGED <<version, store, statusFile, vault, pc, status, plan,
                   updatedStatus, idx, running, failed, log, vaultAtStart, handed,
                   lastPass, passes, api_key, syncResult, cleared, loaded, second,
                   now, last_sync, debounce_seconds>>

\* One turn of the loop: await this.clearStatus(library.prefix).  unlink
\* removes the file; when there is none it throws, clearStatus throws its
\* own error, and nothing catches it in clearCache.  After the last
\* library clearCache returns.
clearCache_clearStatus ==
    /\ libraries.result = "running"
    /\ LET n == libraries.idx
       IN  IF ~libraries.files[n]
           THEN libraries' = [libraries EXCEPT !.result = "failed"]
           ELSE libraries' =
                   [files |-> [libraries.files EXCEPT ![n] = FALSE],
                    idx |-> n + 1,
                    result |-> IF n = Len(libraries.files)
                               THEN "returned" ELSE "running"]
    /\ UNCHANGED <<version, store, statusFile, vault, pc, status, plan,
                   updatedStatus, idx, running, failed, log, vaultAtStart, handed,
                   lastPass, passes, api_key, syncResult, cleared, loaded, second,
                   now, last_sync, debounce_seconds>>

NextClearCache ==
    \/ clearCache
    \/ clearCache_clearStatus

SpecClearCache == InitClearCache /\ [][NextClearCache]_vars

\* C40: when clearCache has returned or has failed, no library has a status
\* file.
C40_ClearCacheClearsAll ==
    libraries.result \in {"returned", "failed"} =>
        \A n \in 1..Len(libraries.files) : ~libraries.files[n]

====
